---------------------------- MODULE Spec2Model ----------------------------
(***************************************************************************)
(* Cyberdark browser extension: the settings sanitizer (validate.js), the  *)
(* settings write paths (options.js, popup.js), the export signature and   *)
(* the content script's style controller (content.js).                     *)
(*                                                                         *)
(* JavaScript values are records [t |-> type tag, v |-> payload].          *)
(*   strings  : v is a tuple of one-character strings                      *)
(*   numbers  : v is an integer counting TENTHS (1.5 is 15, 16 is 160);    *)
(*              NaN and the infinities have their own tags                 *)
(*   arrays   : v is a tuple of values                                     *)
(*   objects  : v is [proto, ents]; ents is the tuple of own enumerable    *)
(*              properties [k, v] in insertion order, proto is "Object"    *)
(*              or "null" (Object.create(null))                            *)
(* A call that raises yields the value Throw.                              *)
(***************************************************************************)
EXTENDS Integers, Sequences, FiniteSets, TLC

\* ------------------------------------------------------------------------
\* JavaScript values
\* ------------------------------------------------------------------------
Undef == [t |-> "undefined", v |-> 0]
Null == [t |-> "null", v |-> 0]
NaN == [t |-> "nan", v |-> 0]
Infinity == [t |-> "infinity", v |-> 0]
Throw == [t |-> "throw", v |-> 0]
JTrue == [t |-> "boolean", v |-> TRUE]
JFalse == [t |-> "boolean", v |-> FALSE]
JBool(b) == [t |-> "boolean", v |-> b]
JNum(tenths) == [t |-> "number", v |-> tenths]
JStr(chars) == [t |-> "string", v |-> chars]
JArr(items) == [t |-> "array", v |-> items]
JObj(proto, ents) == [t |-> "object", v |-> [proto |-> proto, ents |-> ents]]
Ent(k, val) == [k |-> k, v |-> val]
PlainObj(ents) == JObj("Object", ents)
NullProtoObj(ents) == JObj("null", ents)

IsNull(x) == x.t = "null"
IsUndef(x) == x.t = "undefined"
IsThrow(x) == x.t = "throw"
IsTrue(x) == x.t = "boolean" /\ x.v
IsFalse(x) == x.t = "boolean" /\ ~x.v
\* a === b
StrictEq(a, b) == a.t = b.t /\ a = b
IsStr(x) == x.t = "string"
IsObj(x) == x.t = "object"
IsArr(x) == x.t = "array"
\* typeof x === 'object' (arrays and null included)
TypeofObject(x) == x.t \in {"object", "array", "null"}

\* JavaScript truthiness (ToBoolean)
Truthy(x) ==
    CASE x.t \in {"undefined", "null", "nan", "throw"} -> FALSE
      [] x.t = "boolean" -> x.v
      [] x.t = "number" -> x.v # 0
      [] x.t = "string" -> Len(x.v) > 0
      [] OTHER -> TRUE

\* a || b
OrElse(a, b) == IF Truthy(a) THEN a ELSE b

Keys(o) == [i \in 1..Len(o.v.ents) |-> o.v.ents[i].k]
HasOwn(o, k) == IsObj(o) /\ \E i \in 1..Len(o.v.ents) : o.v.ents[i].k = k

\* o[k] / o.k : own property, else undefined (the inherited members of
\* Object.prototype are functions and are looked up by Callable below)
Get(o, k) ==
    IF HasOwn(o, k)
    THEN o.v.ents[CHOOSE i \in 1..Len(o.v.ents) : o.v.ents[i].k = k].v
    ELSE Undef

\* o[k] = val : replaces in place, or appends
Put(o, k, val) ==
    IF HasOwn(o, k)
    THEN JObj(o.v.proto,
              [i \in 1..Len(o.v.ents) |->
                  IF o.v.ents[i].k = k THEN Ent(k, val) ELSE o.v.ents[i]])
    ELSE JObj(o.v.proto, Append(o.v.ents, Ent(k, val)))

\* Object.assign(target, source) for own enumerable properties.
\* Loops over sequences are written as folds that split the range in two, so
\* that the depth of the evaluation grows with the logarithm of the length.
RECURSIVE AssignFrom(_, _, _, _)
AssignFrom(target, ents, lo, hi) ==
    IF ~IsObj(target) \/ lo > hi THEN target
    ELSE IF lo = hi THEN Put(target, ents[lo].k, ents[lo].v)
    ELSE LET mid == (lo + hi) \div 2
         IN  AssignFrom(AssignFrom(target, ents, lo, mid), ents, mid + 1, hi)

Assign(target, source) ==
    IF IsObj(source) THEN AssignFrom(target, source.v.ents, 1, Len(source.v.ents)) ELSE target

\* ------------------------------------------------------------------------
\* Characters and strings
\* ------------------------------------------------------------------------
Digits == <<"0", "1", "2", "3", "4", "5", "6", "7", "8", "9">>
LowerLetters ==
    <<"a", "b", "c", "d", "e", "f", "g", "h", "i", "j", "k", "l", "m",
      "n", "o", "p", "q", "r", "s", "t", "u", "v", "w", "x", "y", "z">>
UpperLetters ==
    <<"A", "B", "C", "D", "E", "F", "G", "H", "I", "J", "K", "L", "M",
      "N", "O", "P", "Q", "R", "S", "T", "U", "V", "W", "X", "Y", "Z">>

Range(s) == {s[i] : i \in 1..Len(s)}
IndexIn(s, c) == CHOOSE i \in 1..Len(s) : s[i] = c

DigitSet == Range(Digits)
LowerSet == Range(LowerLetters)
UpperSet == Range(UpperLetters)
LowerOf == [c \in UpperSet |-> LowerLetters[IndexIn(UpperLetters, c)]]

IsDigit(c) == c \in DigitSet
IsLower(c) == c \in LowerSet
IsUpper(c) == c \in UpperSet
IsHexDigit(c) ==
    \/ IsDigit(c)
    \/ c \in {"a", "b", "c", "d", "e", "f"}
    \/ c \in {"A", "B", "C", "D", "E", "F"}
IsSpace(c) == c \in {" ", "\t", "\n", "\r"}

DigitVal(c) == IndexIn(Digits, c) - 1

\* String.prototype.toLowerCase on the ASCII range
LowerChar(c) == IF IsUpper(c) THEN LowerOf[c] ELSE c
toLowerCase(s) == [i \in 1..Len(s) |-> LowerChar(s[i])]

\* String.prototype.trim: from the first to the last character that is no
\* white space
trim(s) ==
    IF \A i \in 1..Len(s) : IsSpace(s[i]) THEN <<>>
    ELSE SubSeq(s,
            CHOOSE i \in 1..Len(s) : ~IsSpace(s[i]) /\ \A j \in 1..(i - 1) : IsSpace(s[j]),
            CHOOSE i \in 1..Len(s) : ~IsSpace(s[i]) /\ \A j \in (i + 1)..Len(s) : IsSpace(s[j]))

\* String.prototype.split(sep) for a one-character separator: the pieces
\* between consecutive separator positions
split(s, sep) ==
    LET at == SelectSeq([i \in 1..Len(s) |-> i], LAMBDA i : s[i] = sep)
        n == Len(at)
        \* position of the k-th separator; 0 before the first, Len + 1 after the last
        pos(k) == IF k = 0 THEN 0
                  ELSE IF k > n THEN Len(s) + 1
                  ELSE at[k]
    IN  [k \in 1..(n + 1) |-> SubSeq(s, pos(k - 1) + 1, pos(k) - 1)]

\* String.prototype.endsWith
endsWith(s, suffix) ==
    /\ Len(suffix) <= Len(s)
    /\ SubSeq(s, Len(s) - Len(suffix) + 1, Len(s)) = suffix

\* Array.prototype.slice(0, n)
Take(s, n) == IF Len(s) > n THEN SubSeq(s, 1, n) ELSE s

\* ------------------------------------------------------------------------
\* Numbers (in tenths) and their text
\* ------------------------------------------------------------------------
RECURSIVE NatToChars(_)
NatToChars(n) ==
    IF n < 10 THEN <<Digits[n + 1]>>
    ELSE Append(NatToChars(n \div 10), Digits[(n % 10) + 1])

\* Number.prototype.toString / JSON text of a finite number
NumToChars(tenths) ==
    LET a == IF tenths < 0 THEN -tenths ELSE tenths
        whole == NatToChars(a \div 10)
        frac == IF a % 10 = 0 THEN <<>> ELSE <<".", Digits[(a % 10) + 1]>>
    IN  (IF tenths < 0 THEN <<"-">> ELSE <<>>) \o whole \o frac

AllDigits(s) == Len(s) > 0 /\ \A i \in 1..Len(s) : IsDigit(s[i])

RECURSIVE DigitsToNat(_)
DigitsToNat(s) ==
    IF s = <<>> THEN 0
    ELSE 10 * DigitsToNat(SubSeq(s, 1, Len(s) - 1)) + DigitVal(s[Len(s)])

\* Number(string): decimal literals with at most one fractional digit are the
\* numeric strings of this model; every other non-blank text is NaN
NumberOfParts(sign, parts) ==
    IF Len(parts) = 1 /\ AllDigits(parts[1])
    THEN JNum(sign * 10 * DigitsToNat(parts[1]))
    ELSE IF Len(parts) = 2 /\ AllDigits(parts[1]) /\ Len(parts[2]) = 1
            /\ IsDigit(parts[2][1])
         THEN JNum(sign * (10 * DigitsToNat(parts[1]) + DigitVal(parts[2][1])))
    ELSE NaN
NumberOfTrimmed(u) ==
    IF u = <<>> THEN JNum(0)
    ELSE IF u[1] = "-" THEN NumberOfParts(-1, split(Tail(u), "."))
    ELSE NumberOfParts(1, split(u, "."))
StringToNumber(s) == NumberOfTrimmed(trim(s))

\* Number(value)
RECURSIVE ToNumber(_)
ToNumber(x) ==
    CASE x.t = "number" -> x
      [] x.t = "nan" -> NaN
      [] x.t = "infinity" -> Infinity
      [] x.t = "undefined" -> NaN
      [] x.t = "null" -> JNum(0)
      [] x.t = "boolean" -> IF x.v THEN JNum(10) ELSE JNum(0)
      [] x.t = "string" -> StringToNumber(x.v)
      [] x.t = "array" ->
            IF Len(x.v) = 0 THEN JNum(0)
            ELSE IF Len(x.v) = 1 /\ x.v[1].t \in {"number", "string"}
                 THEN ToNumber(x.v[1])
            ELSE NaN
      [] OTHER -> NaN

\* ------------------------------------------------------------------------
\* JSON.stringify and JSON.parse
\* ------------------------------------------------------------------------
RECURSIVE QuoteFrom(_, _, _)
QuoteFrom(s, lo, hi) ==
    IF lo > hi THEN <<>>
    ELSE IF lo = hi
         THEN (IF s[lo] \in {"\"", "\\"} THEN <<"\\", s[lo]>> ELSE <<s[lo]>>)
    ELSE LET mid == (lo + hi) \div 2
         IN  QuoteFrom(s, lo, mid) \o QuoteFrom(s, mid + 1, hi)

\* a string between quotes, its quotes and backslashes escaped
Quote(s) ==
    IF \A i \in 1..Len(s) : s[i] \notin {"\"", "\\"}
    THEN <<"\"">> \o s \o <<"\"">>
    ELSE <<"\"">> \o QuoteFrom(s, 1, Len(s)) \o <<"\"">>

RECURSIVE Stringify(_)
RECURSIVE StringifyItems(_, _, _)
RECURSIVE StringifyEnts(_, _, _)
Stringify(x) ==
    CASE x.t \in {"null", "nan", "infinity", "undefined"} -> <<"n", "u", "l", "l">>
      [] x.t = "boolean" ->
            IF x.v THEN <<"t", "r", "u", "e">> ELSE <<"f", "a", "l", "s", "e">>
      [] x.t = "number" -> NumToChars(x.v)
      [] x.t = "string" -> Quote(x.v)
      [] x.t = "array" -> <<"[">> \o StringifyItems(x.v, 1, Len(x.v)) \o <<"]">>
      [] x.t = "object" ->
            \* properties whose value is undefined are left out
            LET shown == SelectSeq(x.v.ents, LAMBDA e : e.v.t # "undefined")
            IN  <<"{">> \o StringifyEnts(shown, 1, Len(shown)) \o <<"}">>

StringifyItems(items, lo, hi) ==
    IF lo > hi THEN <<>>
    ELSE IF lo = hi THEN Stringify(items[lo])
    ELSE LET mid == (lo + hi) \div 2
         IN  StringifyItems(items, lo, mid) \o <<",">> \o StringifyItems(items, mid + 1, hi)

StringifyEnts(ents, lo, hi) ==
    IF lo > hi THEN <<>>
    ELSE IF lo = hi THEN Quote(ents[lo].k) \o <<":">> \o Stringify(ents[lo].v)
    ELSE LET mid == (lo + hi) \div 2
         IN  StringifyEnts(ents, lo, mid) \o <<",">> \o StringifyEnts(ents, mid + 1, hi)

\* ------------------------------------------------------------------------
\* validate.js : field sanitizers
\* ------------------------------------------------------------------------
\* /^#([0-9a-fA-F]{3}|[0-9a-fA-F]{6})$/
hexRegex(s) ==
    /\ Len(s) \in {4, 7}
    /\ s[1] = "#"
    /\ \A i \in 2..Len(s) : IsHexDigit(s[i])

\* the matching colour handed back in the case it came in
HexOrFallbackKeepingCase(color, fallback) ==
    IF ~IsStr(color) THEN fallback
    ELSE IF hexRegex(color.v) THEN color
    ELSE fallback

\* the two returns of sanitizeHexColor, the fallback parameter resolved
HexOrFallback(color, fallback) ==
    IF ~IsStr(color) THEN fallback
    ELSE IF hexRegex(color.v) THEN JStr(toLowerCase(color.v))
    ELSE fallback

\* fallback = '#000000' when the argument is undefined
sanitizeHexColor(color, fallback) ==
    HexOrFallback(color, IF IsUndef(fallback) THEN JStr(<<"#", "0", "0", "0", "0", "0", "0">>) ELSE fallback)

sanitizeColorPalette(palette, defaults) ==
    PlainObj(<<
        Ent(<<"c", "o", "l", "o", "r", "1">>, sanitizeHexColor(Get(palette, <<"c", "o", "l", "o", "r", "1">>), Get(defaults, <<"c", "o", "l", "o", "r", "1">>))),
        Ent(<<"c", "o", "l", "o", "r", "2">>, sanitizeHexColor(Get(palette, <<"c", "o", "l", "o", "r", "2">>), Get(defaults, <<"c", "o", "l", "o", "r", "2">>))),
        Ent(<<"c", "o", "l", "o", "r", "3">>, sanitizeHexColor(Get(palette, <<"c", "o", "l", "o", "r", "3">>), Get(defaults, <<"c", "o", "l", "o", "r", "3">>))),
        Ent(<<"c", "o", "l", "o", "r", "4">>, sanitizeHexColor(Get(palette, <<"c", "o", "l", "o", "r", "4">>), Get(defaults, <<"c", "o", "l", "o", "r", "4">>)))>>)

\* the number handed back as it was coerced
ClampNumberAbsent(num, min, max, defaultValue) ==
    IF num.t # "number" THEN defaultValue ELSE num

\* Math.max(min, Math.min(max, num)), all in tenths
ClampNumber(num, min, max, defaultValue) ==
    IF num.t # "number" THEN defaultValue
    ELSE IF num.v > max THEN JNum(max)
    ELSE IF num.v < min THEN JNum(min)
    ELSE num
sanitizeNumericRange(value, min, max, defaultValue) ==
    IF value.t \in {"null", "undefined"} \/ StrictEq(value, JStr(<<>>)) THEN defaultValue
    ELSE ClampNumber(ToNumber(value), min, max, defaultValue)

FontSizeMin == 120
FontSizeMax == 240
FontSizeDefault == 160
LineHeightMin == 10
LineHeightMax == 22
LineHeightDefault == 15

sanitizeFontSize(fontSize) ==
    sanitizeNumericRange(fontSize, FontSizeMin, FontSizeMax, JNum(FontSizeDefault))

sanitizeLineHeight(lineHeight) ==
    sanitizeNumericRange(lineHeight, LineHeightMin, LineHeightMax, JNum(LineHeightDefault))

MaxDomainLength == 253

IsLabelChar(c) == IsLower(c) \/ IsUpper(c) \/ IsDigit(c) \/ c = "-"
IsLabel(s) == Len(s) > 0 /\ \A i \in 1..Len(s) : IsLabelChar(s[i])
IsTld(s) == Len(s) >= 2 /\ \A i \in 1..Len(s) : IsLower(s[i]) \/ IsUpper(s[i])

\* /^([a-z0-9-]+\.)*[a-z0-9-]+\.[a-z]{2,}$|^localhost$/i
LabelsMatch(labels) ==
    /\ Len(labels) >= 2
    /\ \A i \in 1..(Len(labels) - 1) : IsLabel(labels[i])
    /\ IsTld(labels[Len(labels)])
domainRegex(s) ==
    \/ LabelsMatch(split(s, "."))
    \/ toLowerCase(s) = <<"l", "o", "c", "a", "l", "h", "o", "s", "t">>

DomainOrNull(sanitized) ==
    IF sanitized = <<>> THEN Null
    ELSE IF Len(sanitized) > MaxDomainLength THEN Null
    ELSE IF domainRegex(sanitized) THEN JStr(sanitized)
    ELSE Null
sanitizeDomain(domain) ==
    IF ~IsStr(domain) THEN Null
    ELSE DomainOrNull(toLowerCase(trim(domain.v)))

MaxDomains == 1000

\* split(/\r?\n/)
StripCR(s) == IF Len(s) > 0 /\ s[Len(s)] = "\r" THEN SubSeq(s, 1, Len(s) - 1) ELSE s
StripCRs(raw) == [i \in 1..Len(raw) |-> IF i < Len(raw) THEN StripCR(raw[i]) ELSE raw[i]]
SplitLines(s) == StripCRs(split(s, "\n"))

\* .map(d => sanitizeDomain(d)).filter(d => d !== null)
ValidDomains(items) ==
    SelectSeq([i \in 1..Len(items) |-> sanitizeDomain(items[i])], LAMBDA d : ~IsNull(d))

Strings(lines) == [i \in 1..Len(lines) |-> JStr(lines[i])]

\* sanitizeDomainList without its .slice(0, 1000)
sanitizeDomainListUncut(domains) ==
    IF IsStr(domains) THEN JArr(ValidDomains(Strings(SplitLines(domains.v))))
    ELSE IF IsArr(domains) THEN JArr(ValidDomains(domains.v))
    ELSE JArr(<<>>)

sanitizeDomainList(domains) ==
    IF IsStr(domains)
    THEN JArr(Take(ValidDomains(Strings(SplitLines(domains.v))), MaxDomains))
    ELSE IF IsArr(domains) THEN JArr(Take(ValidDomains(domains.v), MaxDomains))
    ELSE JArr(<<>>)

\* /^([0-1][0-9]|2[0-3]):([0-5][0-9])$/
timeRegex(s) ==
    /\ Len(s) = 5
    /\ s[3] = ":"
    /\ \/ s[1] \in {"0", "1"} /\ IsDigit(s[2])
       \/ s[1] = "2" /\ s[2] \in {"0", "1", "2", "3"}
    /\ s[4] \in {"0", "1", "2", "3", "4", "5"}
    /\ IsDigit(s[5])

sanitizeTimeString(time, fallback) ==
    IF ~IsStr(time) THEN fallback
    ELSE IF timeRegex(time.v) THEN time
    ELSE fallback

validModes ==
    {<<"n", "o", "n", "e">>, <<"p", "r", "o", "t", "a", "n", "o", "p", "i", "a">>, <<"d", "e", "u", "t", "e", "r", "a", "n", "o", "p", "i", "a">>, <<"t", "r", "i", "t", "a", "n", "o", "p", "i", "a">>, <<"a", "c", "h", "r", "o", "m", "a", "t", "o", "p", "s", "i", "a">>}

sanitizeColorBlindMode(mode) ==
    IF IsTrue(mode) THEN JStr(<<"p", "r", "o", "t", "a", "n", "o", "p", "i", "a">>)
    ELSE IF IsFalse(mode) THEN JStr(<<"n", "o", "n", "e">>)
    ELSE IF IsStr(mode) /\ mode.v \in validModes THEN mode
    ELSE JStr(<<"n", "o", "n", "e">>)

\* ------------------------------------------------------------------------
\* validate.js : storage quota and settings signature
\* ------------------------------------------------------------------------
\* new Blob([JSON.stringify(obj)]).size ; every character of the model is
\* ASCII, one byte each
calculateObjectSize(obj) == Len(Stringify(obj))

SyncQuotaBytes == 8000

fitsInSyncQuota(obj) == calculateObjectSize(obj) < SyncQuotaBytes

\* String.prototype.charCodeAt : the printable ASCII characters, from code 32
\* (code 96, the grave accent, is spelled out: no text of the model holds it)
AsciiFrom32 ==
    <<" ", "!", "\"", "#", "$", "%", "&", "'", "(", ")", "*", "+", ",", "-", ".", "/",
      "0", "1", "2", "3", "4", "5", "6", "7", "8", "9", ":", ";", "<", "=", ">", "?", "@", "A", "B", "C", "D", "E", "F", "G", "H", "I", "J", "K", "L", "M", "N", "O",
      "P", "Q", "R", "S", "T", "U", "V", "W", "X", "Y", "Z", "[", "\\", "]", "^", "_", "grave", "a", "b", "c", "d", "e", "f", "g", "h", "i", "j", "k", "l", "m", "n", "o",
      "p", "q", "r", "s", "t", "u", "v", "w", "x", "y", "z", "{", "|", "}", "~">>
CodeOf == [c \in Range(AsciiFrom32) |-> 31 + IndexIn(AsciiFrom32, c)]
charCodeAt(c) == CodeOf[c]

\* A signed 32-bit integer is kept as its two 16-bit words [hi, lo] (the
\* model checker's integers are 32 bits wide themselves).
\* hash = ((hash << 5) - hash) + char; hash = hash & hash
\* (hash << 5) - hash is 31 * hash, and hash & hash keeps the low 32 bits
HashStep(h, code) ==
    LET low == 31 * h.lo + code
    IN  [hi |-> (31 * h.hi + (low \div 65536)) % 65536, lo |-> low % 65536]

RECURSIVE FallbackHash(_, _, _, _)
FallbackHash(str, lo, hi, hash) ==
    IF hash.lo < 0 \/ lo > hi THEN hash
    ELSE IF lo = hi THEN HashStep(hash, charCodeAt(str[lo]))
    ELSE LET mid == (lo + hi) \div 2
         IN  FallbackHash(str, mid + 1, hi, FallbackHash(str, lo, mid, hash))

HexDigits ==
    <<"0", "1", "2", "3", "4", "5", "6", "7", "8", "9", "a", "b", "c", "d", "e", "f">>

RECURSIVE NatToHex(_)
NatToHex(n) ==
    IF n < 16 THEN <<HexDigits[n + 1]>>
    ELSE Append(NatToHex(n \div 16), HexDigits[(n % 16) + 1])

RECURSIVE PadHex4(_)
PadHex4(s) == IF Len(s) >= 4 THEN s ELSE PadHex4(<<"0">> \o s)

WordsToHex(hi, lo) ==
    IF hi = 0 THEN NatToHex(lo) ELSE NatToHex(hi) \o PadHex4(NatToHex(lo))

\* Number.prototype.toString(16) of the signed value of the words: a
\* negative value is a minus sign and the digits of its magnitude
toString16(h) ==
    IF h.hi >= 32768
    THEN LET mlo == (65536 - h.lo) % 65536
             mhi == 65536 - h.hi - (IF h.lo > 0 THEN 1 ELSE 0)
         IN  <<"-">> \o WordsToHex(mhi, mlo)
    ELSE WordsToHex(h.hi, h.lo)

\* crypto.subtle.digest of SHA-256 rendered as hex.  The digest is the
\* platform's; it is modelled as collision-free: the digest text of a
\* message is the message itself behind the marker "sha256:"
Sha256Hex(str) == <<"s", "h", "a", "2", "5", "6", ":">> \o str

\* calculateChecksum(data), in a context where crypto.subtle is (not) there
ChecksumOfText(str, crypto) ==
    IF crypto THEN JStr(Sha256Hex(str))
    ELSE JStr(toString16(FallbackHash(str, 1, Len(str), [hi |-> 0, lo |-> 0])))
calculateChecksum(data, crypto) == ChecksumOfText(Stringify(data), crypto)

signSettings(settings, crypto) ==
    PlainObj(<<Ent(<<"v", "e", "r", "s", "i", "o", "n">>, JStr(<<"1", ".", "0">>)),
               Ent(<<"c", "h", "e", "c", "k", "s", "u", "m">>, calculateChecksum(settings, crypto)),
               Ent(<<"d", "a", "t", "a">>, settings)>>)

\* const { checksum, data } = signedSettings and the comparison, lines 391-400
VerifiedData(checksum, data, crypto) ==
    IF ~Truthy(data) THEN Null
    ELSE IF StrictEq(checksum, calculateChecksum(data, crypto)) THEN data
    ELSE Null

\* verifySettings with the checksum recomputed over the whole envelope
\* rather than over its data
EnvelopeData(signedSettings, checksum, data, crypto) ==
    IF ~Truthy(data) THEN Null
    ELSE IF StrictEq(checksum, calculateChecksum(signedSettings, crypto)) THEN data
    ELSE Null
verifySettingsOverEnvelope(signedSettings, crypto) ==
    IF ~Truthy(signedSettings) \/ ~TypeofObject(signedSettings) THEN Null
    ELSE IF ~Truthy(Get(signedSettings, <<"v", "e", "r", "s", "i", "o", "n">>))
            /\ ~Truthy(Get(signedSettings, <<"c", "h", "e", "c", "k", "s", "u", "m">>))
         THEN signedSettings
    ELSE EnvelopeData(signedSettings, Get(signedSettings, <<"c", "h", "e", "c", "k", "s", "u", "m">>),
                      Get(signedSettings, <<"d", "a", "t", "a">>), crypto)

verifySettings(signedSettings, crypto) ==
    IF ~Truthy(signedSettings) \/ ~TypeofObject(signedSettings) THEN Null
    ELSE IF ~Truthy(Get(signedSettings, <<"v", "e", "r", "s", "i", "o", "n">>))
            /\ ~Truthy(Get(signedSettings, <<"c", "h", "e", "c", "k", "s", "u", "m">>))
         THEN signedSettings
    ELSE VerifiedData(Get(signedSettings, <<"c", "h", "e", "c", "k", "s", "u", "m">>), Get(signedSettings, <<"d", "a", "t", "a">>), crypto)

\* ------------------------------------------------------------------------
\* Default settings
\* ------------------------------------------------------------------------
DefaultSchedule ==
    PlainObj(<<Ent(<<"e", "n", "a", "b", "l", "e", "d">>, JFalse),
               Ent(<<"s", "t", "a", "r", "t">>, JStr(<<"2", "0", ":", "0", "0">>)),
               Ent(<<"e", "n", "d">>, JStr(<<"0", "6", ":", "0", "0">>))>>)

\* config.js DEFAULT_SETTINGS, the defaults of the options page and of the
\* content script
ConfigDefaults ==
    PlainObj(<<Ent(<<"c", "o", "l", "o", "r", "1">>, JStr(<<"#", "0", "0", "f", "f", "f", "f">>)),
               Ent(<<"c", "o", "l", "o", "r", "2">>, JStr(<<"#", "0", "0", "f", "f", "0", "0">>)),
               Ent(<<"c", "o", "l", "o", "r", "3">>, JStr(<<"#", "f", "f", "0", "0", "f", "f">>)),
               Ent(<<"c", "o", "l", "o", "r", "4">>, JStr(<<"#", "f", "f", "0", "0", "0", "0">>)),
               Ent(<<"t", "e", "x", "t", "S", "h", "a", "d", "o", "w">>, JTrue),
               Ent(<<"h", "i", "g", "h", "C", "o", "n", "t", "r", "a", "s", "t">>, JTrue),
               Ent(<<"f", "o", "c", "u", "s", "O", "u", "t", "l", "i", "n", "e">>, JTrue),
               Ent(<<"r", "e", "d", "u", "c", "e", "d", "M", "o", "t", "i", "o", "n">>, JFalse),
               Ent(<<"f", "o", "n", "t", "S", "i", "z", "e">>, JNum(160)),
               Ent(<<"l", "i", "n", "e", "H", "e", "i", "g", "h", "t">>, JNum(15)),
               Ent(<<"c", "o", "l", "o", "r", "B", "l", "i", "n", "d", "M", "o", "d", "e">>, JStr(<<"n", "o", "n", "e">>)),
               Ent(<<"b", "l", "a", "c", "k", "l", "i", "s", "t">>, JArr(<<>>)),
               Ent(<<"p", "e", "r", "S", "i", "t", "e", "O", "v", "e", "r", "r", "i", "d", "e", "s">>, PlainObj(<<>>)),
               Ent(<<"e", "n", "a", "b", "l", "e", "d">>, JTrue),
               Ent(<<"s", "c", "h", "e", "d", "u", "l", "e">>, DefaultSchedule),
               Ent(<<"r", "e", "s", "o", "u", "r", "c", "e", "M", "o", "n", "i", "t", "o", "r", "E", "n", "a", "b", "l", "e", "d">>, JTrue),
               Ent(<<"d", "e", "b", "u", "g", "M", "o", "d", "e">>, JFalse)>>)

\* popup.js defaultSettings
PopupDefaults ==
    PlainObj(<<Ent(<<"c", "o", "l", "o", "r", "1">>, JStr(<<"#", "0", "0", "f", "f", "f", "f">>)),
               Ent(<<"c", "o", "l", "o", "r", "2">>, JStr(<<"#", "0", "0", "f", "f", "0", "0">>)),
               Ent(<<"c", "o", "l", "o", "r", "3">>, JStr(<<"#", "f", "f", "0", "0", "f", "f">>)),
               Ent(<<"c", "o", "l", "o", "r", "4">>, JStr(<<"#", "f", "f", "0", "0", "0", "0">>)),
               Ent(<<"t", "e", "x", "t", "S", "h", "a", "d", "o", "w">>, JTrue),
               Ent(<<"h", "i", "g", "h", "C", "o", "n", "t", "r", "a", "s", "t">>, JTrue),
               Ent(<<"f", "o", "c", "u", "s", "O", "u", "t", "l", "i", "n", "e">>, JTrue),
               Ent(<<"r", "e", "d", "u", "c", "e", "d", "M", "o", "t", "i", "o", "n">>, JFalse),
               Ent(<<"f", "o", "n", "t", "S", "i", "z", "e">>, JNum(160)),
               Ent(<<"l", "i", "n", "e", "H", "e", "i", "g", "h", "t">>, JNum(15)),
               Ent(<<"c", "o", "l", "o", "r", "B", "l", "i", "n", "d", "M", "o", "d", "e">>, JStr(<<"n", "o", "n", "e">>)),
               Ent(<<"b", "l", "a", "c", "k", "l", "i", "s", "t">>, JArr(<<>>)),
               Ent(<<"p", "e", "r", "S", "i", "t", "e", "O", "v", "e", "r", "r", "i", "d", "e", "s">>, PlainObj(<<>>)),
               Ent(<<"s", "c", "h", "e", "d", "u", "l", "e">>, DefaultSchedule),
               Ent(<<"r", "e", "s", "o", "u", "r", "c", "e", "M", "o", "n", "i", "t", "o", "r", "E", "n", "a", "b", "l", "e", "d">>, JTrue),
               Ent(<<"d", "e", "b", "u", "g", "M", "o", "d", "e">>, JFalse)>>)

\* ------------------------------------------------------------------------
\* The texts and values the modelled inputs are drawn from
\* ------------------------------------------------------------------------
HostA == <<"a", ".", "c", "o">>
HostSubA == <<"b", ".", "a", ".", "c", "o">>
HostXA == <<"x", "a", ".", "c", "o">>
HostB == <<"b", "b", ".", "i", "o">>
HostIP == <<"1", "0", ".", "0", ".", "0", ".", "1">>

OvColor == PlainObj(<<Ent(<<"c", "o", "l", "o", "r", "1">>, JStr(<<"#", "F", "F", "F">>)), Ent(<<"f", "o", "n", "t", "S", "i", "z", "e">>, JNum(300))>>)
OvFlags == PlainObj(<<Ent(<<"t", "e", "x", "t", "S", "h", "a", "d", "o", "w">>, JNum(0)), Ent(<<"c", "o", "l", "o", "r", "B", "l", "i", "n", "d", "M", "o", "d", "e">>, JTrue)>>)

OvEmpty == PlainObj(<<>>)
OvValid == PlainObj(<<Ent(HostA, OvColor)>>)
OvTwo == PlainObj(<<Ent(<<"B", ".", "A", ".", "c", "o">>, OvFlags), Ent(HostA, OvColor)>>)
OvProto == PlainObj(<<Ent(<<"_", "_", "p", "r", "o", "t", "o", "_", "_">>, OvColor), Ent(<<"c", "o", "n", "s", "t", "r", "u", "c", "t", "o", "r">>, OvColor),
                      Ent(HostB, OvFlags)>>)
OvHasOwn == PlainObj(<<Ent(<<"h", "a", "s", "O", "w", "n", "P", "r", "o", "p", "e", "r", "t", "y">>, OvColor)>>)
OvBadKeys == PlainObj(<<Ent(<<"n", "o", "t", " ", "a", " ", "d", "o", "m", "a", "i", "n">>, OvColor), Ent(HostSubA, JNum(50))>>)

OverrideObjects == {OvEmpty, OvValid, OvTwo, OvProto, OvHasOwn, OvBadKeys}

NotJson == <<"{", "o", "o", "p", "s">>

OptEnt(k, val) == IF IsUndef(val) THEN <<>> ELSE <<Ent(k, val)>>

\* a settings-shaped object holding the given fields (absent when undefined)
MkSettings(color1, fontSize, colorBlindMode, blacklist, perSiteOverrides, schedule) ==
    PlainObj(OptEnt(<<"c", "o", "l", "o", "r", "1">>, color1)
             \o OptEnt(<<"f", "o", "n", "t", "S", "i", "z", "e">>, fontSize)
             \o OptEnt(<<"c", "o", "l", "o", "r", "B", "l", "i", "n", "d", "M", "o", "d", "e">>, colorBlindMode)
             \o OptEnt(<<"b", "l", "a", "c", "k", "l", "i", "s", "t">>, blacklist)
             \o OptEnt(<<"p", "e", "r", "S", "i", "t", "e", "O", "v", "e", "r", "r", "i", "d", "e", "s">>, perSiteOverrides)
             \o OptEnt(<<"s", "c", "h", "e", "d", "u", "l", "e">>, schedule))

MkSchedule(enabled, start, end) ==
    PlainObj(<<Ent(<<"e", "n", "a", "b", "l", "e", "d">>, enabled), Ent(<<"s", "t", "a", "r", "t">>, JStr(start)), Ent(<<"e", "n", "d">>, JStr(end))>>)

ColorInputs == {Undef, JStr(<<"#", "F", "F", "F">>), JStr(<<"r", "e", "d">>)}
FontSizeInputs == {JStr(<<"1", "8">>), JNum(300)}
ModeInputs == {Undef, JStr(<<"t", "r", "i", "t", "a", "n", "o", "p", "i", "a">>)}
BlacklistInputs ==
    {Undef,
     JArr(<<JStr(<<" ", "A", ".", "c", "o", " ">>), JNum(10), JStr(<<"n", "o", "d", "o", "t">>), JStr(HostB)>>),
     JStr(<<"a", ".", "c", "o", "\n", "b", "a", "d", "_", "h", "o", "s", "t", "\n", "b", "b", ".", "i", "o">>)}
ScheduleInputs ==
    {Undef,
     MkSchedule(JTrue, <<"0", "9", ":", "0", "0">>, <<"1", "7", ":", "0", "0">>),
     MkSchedule(JStr(<<"y", "e", "s">>), <<"2", "4", ":", "0", "0">>, <<"6", ":", "0", "0">>)}

\* what validateSettingsObject is handed: records of every combination of
\* the field inputs, and values that are no records at all
SettingsInputs ==
    {MkSettings(c, f, m, b, o, s) :
        c \in ColorInputs, f \in FontSizeInputs, m \in ModeInputs,
        b \in BlacklistInputs, o \in OverrideObjects \cup {Undef},
        s \in ScheduleInputs}
    \cup {Undef, Null, JNum(10), JStr(<<"s", "e", "t", "t", "i", "n", "g", "s">>), JArr(<<>>)}

\* records an export file may hold
RecSmall ==
    MkSettings(JStr(<<"#", "F", "F", "F">>), JStr(<<"1", "8">>), Undef, JArr(<<JStr(<<"a", "a", ".", "c", "o">>)>>), OvValid, Undef)
\* RecSmall with another blacklist entry; its text has the same rolling
\* hash as the text of RecSmall ("aa" and "bB" weigh the same)
RecCollide ==
    MkSettings(JStr(<<"#", "F", "F", "F">>), JStr(<<"1", "8">>), Undef, JArr(<<JStr(<<"b", "B", ".", "c", "o">>)>>), OvValid, Undef)
RecOther ==
    MkSettings(JStr(<<"#", "F", "F", "F">>), JStr(<<"1", "8">>), Undef, JArr(<<JStr(<<"c", "c", ".", "c", "o">>)>>), OvValid, Undef)

\* a blacklist that makes the validated record 8000 bytes or more
BigCount == 30
LongDomain == [i \in 1..(MaxDomainLength - 3) |-> "a"] \o <<".", "c", "o">>
BigBlacklist == JArr([i \in 1..BigCount |-> JStr(LongDomain)])
RecBig == MkSettings(Undef, Undef, Undef, BigBlacklist, Undef, Undef)

\* {version, checksum, data} whose checksum was computed over signedData
\* an export file: the envelope signSettings builds, here with the data and
\* the checksum given apart so that a file can hold data replaced after signing
Envelope(data, checksum) ==
    PlainObj(<<Ent(<<"v", "e", "r", "s", "i", "o", "n">>, JStr(<<"1", ".", "0">>)),
               Ent(<<"c", "h", "e", "c", "k", "s", "u", "m">>, checksum),
               Ent(<<"d", "a", "t", "a">>, data)>>)

\* what an import file may hold: bare records, envelopes signed with and
\* without crypto.subtle, envelopes whose data was replaced after signing,
\* an envelope without a checksum
EnvelopesOf(small, sha, fallback) ==
    <<small, RecBig,
      Envelope(small, sha), Envelope(small, fallback),
      Envelope(RecCollide, fallback), Envelope(RecOther, sha),
      PlainObj(<<Ent(<<"v", "e", "r", "s", "i", "o", "n">>, JStr(<<"1", ".", "0">>)), Ent(<<"d", "a", "t", "a">>, RecOther)>>)>>
ImportValues ==
    EnvelopesOf(RecSmall, calculateChecksum(RecSmall, TRUE), calculateChecksum(RecSmall, FALSE))

\* every value that has a JSON text in the model, each with its text
WithTexts(values) == [i \in 1..Len(values) |-> [text |-> Stringify(values[i]), value |-> values[i]]]
JsonTable ==
    WithTexts(<<OvEmpty, OvValid, OvTwo, OvProto, OvHasOwn, OvBadKeys, JNum(50), Null>> \o ImportValues)

\* JSON.parse(text): the value whose JSON text it is; Throw (a SyntaxError)
\* for a text that is the JSON text of no value
ParseWith(table, text) ==
    LET hits == SelectSeq(table, LAMBDA row : row.text = text)
    IN  IF hits = <<>> THEN Throw ELSE hits[1].value
JSONParse(text) == ParseWith(JsonTable, text)

\* the files chosen for import
TextsOf(table) == {table[i].text : i \in 1..Len(table)}
ImportTexts == TextsOf(WithTexts(ImportValues)) \cup {NotJson}

\* ------------------------------------------------------------------------
\* validate.js : sanitizePerSiteOverrides, validateSettingsObject
\* ------------------------------------------------------------------------
MaxOverrides == 100

\* for (const key in parsed): the enumerable keys, in order
ForInKeys(parsed) ==
    CASE IsObj(parsed) -> Keys(parsed)
      [] parsed.t \in {"array", "string"} -> [i \in 1..Len(parsed.v) |-> NatToChars(i - 1)]
      [] OTHER -> <<>>

\* parsed.hasOwnProperty is a function: inherited from Object.prototype
\* unless an own property of that name (never a function in JSON-like data)
\* hides it, and missing when parsed has no prototype
HasOwnPropertyCallable(parsed) ==
    IF IsObj(parsed)
    THEN parsed.v.proto = "Object" /\ ~HasOwn(parsed, <<"h", "a", "s", "O", "w", "n", "P", "r", "o", "p", "e", "r", "t", "y">>)
    ELSE TRUE

ForbiddenKeys == {<<"_", "_", "p", "r", "o", "t", "o", "_", "_">>, <<"c", "o", "n", "s", "t", "r", "u", "c", "t", "o", "r">>, <<"p", "r", "o", "t", "o", "t", "y", "p", "e">>}

\* the recognised properties of one domain's override, lines 231-246
SanitizeOverride(ds) ==
    LET color(k, fb) ==
            IF Truthy(Get(ds, k)) THEN <<Ent(k, sanitizeHexColor(Get(ds, k), JStr(fb)))>> ELSE <<>>
        flag(k) ==
            IF ~IsUndef(Get(ds, k)) THEN <<Ent(k, JBool(Truthy(Get(ds, k))))>> ELSE <<>>
    IN  NullProtoObj(
            color(<<"c", "o", "l", "o", "r", "1">>, <<"#", "0", "0", "f", "f", "f", "f">>) \o color(<<"c", "o", "l", "o", "r", "2">>, <<"#", "0", "0", "f", "f", "0", "0">>)
            \o color(<<"c", "o", "l", "o", "r", "3">>, <<"#", "f", "f", "0", "0", "f", "f">>) \o color(<<"c", "o", "l", "o", "r", "4">>, <<"#", "f", "f", "0", "0", "0", "0">>)
            \o flag(<<"t", "e", "x", "t", "S", "h", "a", "d", "o", "w">>) \o flag(<<"h", "i", "g", "h", "C", "o", "n", "t", "r", "a", "s", "t">>)
            \o flag(<<"f", "o", "c", "u", "s", "O", "u", "t", "l", "i", "n", "e">>) \o flag(<<"r", "e", "d", "u", "c", "e", "d", "M", "o", "t", "i", "o", "n">>)
            \o (IF Truthy(Get(ds, <<"f", "o", "n", "t", "S", "i", "z", "e">>))
                THEN <<Ent(<<"f", "o", "n", "t", "S", "i", "z", "e">>, sanitizeFontSize(Get(ds, <<"f", "o", "n", "t", "S", "i", "z", "e">>)))>> ELSE <<>>)
            \o (IF Truthy(Get(ds, <<"l", "i", "n", "e", "H", "e", "i", "g", "h", "t">>))
                THEN <<Ent(<<"l", "i", "n", "e", "H", "e", "i", "g", "h", "t">>, sanitizeLineHeight(Get(ds, <<"l", "i", "n", "e", "H", "e", "i", "g", "h", "t">>)))>> ELSE <<>>)
            \o (IF Truthy(Get(ds, <<"c", "o", "l", "o", "r", "B", "l", "i", "n", "d", "M", "o", "d", "e">>))
                THEN <<Ent(<<"c", "o", "l", "o", "r", "B", "l", "i", "n", "d", "M", "o", "d", "e">>, sanitizeColorBlindMode(Get(ds, <<"c", "o", "l", "o", "r", "B", "l", "i", "n", "d", "M", "o", "d", "e">>)))>>
                ELSE <<>>))

\* one pass of the loop body of lines 213-247 for key; Throw when
\* parsed.hasOwnProperty(key) raises a TypeError
PutOverride(safe, domain, domainSettings) ==
    IF ~Truthy(domain) THEN safe
    ELSE IF ~TypeofObject(domainSettings) \/ IsNull(domainSettings) THEN safe
    ELSE Put(safe, domain.v, SanitizeOverride(domainSettings))
\* the entry stored under the key as it was given
SanitizeEntryUnchecked(parsed, key, safe) ==
    IF ~HasOwnPropertyCallable(parsed) THEN Throw
    ELSE PutOverride(safe, JStr(key), Get(parsed, key))

SanitizeEntry(parsed, key, safe) ==
    IF ~HasOwnPropertyCallable(parsed) THEN Throw
    ELSE IF key \in ForbiddenKeys THEN safe
    ELSE PutOverride(safe, sanitizeDomain(JStr(key)), Get(parsed, key))

\* the loop over keys[lo..hi]; a raised error ends it
RECURSIVE SanitizeEntries(_, _, _, _, _)
SanitizeEntries(parsed, keys, lo, hi, safe) ==
    IF IsThrow(safe) \/ lo > hi THEN safe
    ELSE IF lo = hi THEN SanitizeEntry(parsed, keys[lo], safe)
    ELSE LET mid == (lo + hi) \div 2
         IN  SanitizeEntries(parsed, keys, mid + 1, hi,
                             SanitizeEntries(parsed, keys, lo, mid, safe))

\* the map handed back whatever its size
LimitOverridesAbsent(safe) == safe

\* lines 250-259: keep the first MaxOverrides keys
LimitOverrides(safe) ==
    IF IsThrow(safe) THEN Throw
    ELSE IF Len(safe.v.ents) > MaxOverrides
    THEN NullProtoObj(SubSeq(safe.v.ents, 1, MaxOverrides))
    ELSE safe

\* the loop over the keys of parsed and the limit; a text that is not JSON
\* gives the empty map
SanitizeKeys(parsed, keys) == SanitizeEntries(parsed, keys, 1, Len(keys), NullProtoObj(<<>>))
SanitizeParsed(parsed) ==
    IF IsThrow(parsed) THEN NullProtoObj(<<>>)
    ELSE LimitOverrides(SanitizeKeys(parsed, ForInKeys(parsed)))

sanitizePerSiteOverrides(overrides) ==
    IF IsStr(overrides) THEN SanitizeParsed(JSONParse(overrides.v))
    ELSE IF ~TypeofObject(overrides) \/ IsNull(overrides) THEN NullProtoObj(<<>>)
    ELSE SanitizeParsed(overrides)

\* validated.schedule, lines 292-300
ValidSchedule(given, defaults) ==
    IF Truthy(given) /\ TypeofObject(given)
    THEN PlainObj(<<
           Ent(<<"e", "n", "a", "b", "l", "e", "d">>, JBool(Truthy(Get(given, <<"e", "n", "a", "b", "l", "e", "d">>)))),
           Ent(<<"s", "t", "a", "r", "t">>, sanitizeTimeString(Get(given, <<"s", "t", "a", "r", "t">>), JStr(<<"2", "0", ":", "0", "0">>))),
           Ent(<<"e", "n", "d">>, sanitizeTimeString(Get(given, <<"e", "n", "d">>), JStr(<<"0", "6", ":", "0", "0">>)))>>)
    ELSE OrElse(Get(defaults, <<"s", "c", "h", "e", "d", "u", "l", "e">>), DefaultSchedule)

\* the validated record of lines 274-289 with its schedule, the overrides
\* already sanitized; Throw when sanitizing them raised
ValidatedWith(settings, defaults, overrides) ==
    IF IsThrow(overrides) THEN Throw
    ELSE PlainObj(<<
       Ent(<<"c", "o", "l", "o", "r", "1">>, sanitizeHexColor(Get(settings, <<"c", "o", "l", "o", "r", "1">>), Get(defaults, <<"c", "o", "l", "o", "r", "1">>))),
       Ent(<<"c", "o", "l", "o", "r", "2">>, sanitizeHexColor(Get(settings, <<"c", "o", "l", "o", "r", "2">>), Get(defaults, <<"c", "o", "l", "o", "r", "2">>))),
       Ent(<<"c", "o", "l", "o", "r", "3">>, sanitizeHexColor(Get(settings, <<"c", "o", "l", "o", "r", "3">>), Get(defaults, <<"c", "o", "l", "o", "r", "3">>))),
       Ent(<<"c", "o", "l", "o", "r", "4">>, sanitizeHexColor(Get(settings, <<"c", "o", "l", "o", "r", "4">>), Get(defaults, <<"c", "o", "l", "o", "r", "4">>))),
       Ent(<<"t", "e", "x", "t", "S", "h", "a", "d", "o", "w">>, JBool(Truthy(Get(settings, <<"t", "e", "x", "t", "S", "h", "a", "d", "o", "w">>)))),
       Ent(<<"h", "i", "g", "h", "C", "o", "n", "t", "r", "a", "s", "t">>, JBool(Truthy(Get(settings, <<"h", "i", "g", "h", "C", "o", "n", "t", "r", "a", "s", "t">>)))),
       Ent(<<"f", "o", "c", "u", "s", "O", "u", "t", "l", "i", "n", "e">>, JBool(Truthy(Get(settings, <<"f", "o", "c", "u", "s", "O", "u", "t", "l", "i", "n", "e">>)))),
       Ent(<<"r", "e", "d", "u", "c", "e", "d", "M", "o", "t", "i", "o", "n">>, JBool(Truthy(Get(settings, <<"r", "e", "d", "u", "c", "e", "d", "M", "o", "t", "i", "o", "n">>)))),
       Ent(<<"f", "o", "n", "t", "S", "i", "z", "e">>, sanitizeFontSize(Get(settings, <<"f", "o", "n", "t", "S", "i", "z", "e">>))),
       Ent(<<"l", "i", "n", "e", "H", "e", "i", "g", "h", "t">>, sanitizeLineHeight(Get(settings, <<"l", "i", "n", "e", "H", "e", "i", "g", "h", "t">>))),
       Ent(<<"c", "o", "l", "o", "r", "B", "l", "i", "n", "d", "M", "o", "d", "e">>, sanitizeColorBlindMode(Get(settings, <<"c", "o", "l", "o", "r", "B", "l", "i", "n", "d", "M", "o", "d", "e">>))),
       Ent(<<"b", "l", "a", "c", "k", "l", "i", "s", "t">>,
           sanitizeDomainList(OrElse(Get(settings, <<"b", "l", "a", "c", "k", "l", "i", "s", "t">>), JArr(<<>>)))),
       Ent(<<"p", "e", "r", "S", "i", "t", "e", "O", "v", "e", "r", "r", "i", "d", "e", "s">>, overrides),
       Ent(<<"d", "e", "b", "u", "g", "M", "o", "d", "e">>, JBool(Truthy(Get(settings, <<"d", "e", "b", "u", "g", "M", "o", "d", "e">>)))),
       Ent(<<"s", "c", "h", "e", "d", "u", "l", "e">>, ValidSchedule(Get(settings, <<"s", "c", "h", "e", "d", "u", "l", "e">>), defaults))>>)

validateSettingsObject(settings, defaults) ==
    IF ~Truthy(settings) \/ ~TypeofObject(settings)
    THEN Assign(PlainObj(<<>>), defaults)
    ELSE ValidatedWith(settings, defaults,
                       sanitizePerSiteOverrides(OrElse(Get(settings, <<"p", "e", "r", "S", "i", "t", "e", "O", "v", "e", "r", "r", "i", "d", "e", "s">>), PlainObj(<<>>))))

\* ------------------------------------------------------------------------
\* Comparing results
\* ------------------------------------------------------------------------
\* a marker for "no value yet" in the variables below
None == [t |-> "none", v |-> 0]
IsNone(x) == x.t = "none"

\* deep equality of two values: same type, same own keys with deep-equal
\* values (whatever the key order and the prototype), same items in order
RECURSIVE DeepEqual(_, _)
DeepEqual(a, b) ==
    IF a.t # b.t THEN FALSE
    ELSE IF a.t = "object"
         THEN /\ Range(Keys(a)) = Range(Keys(b))
              /\ \A k \in Range(Keys(a)) : DeepEqual(Get(a, k), Get(b, k))
    ELSE IF a.t = "array"
         THEN /\ Len(a.v) = Len(b.v)
              /\ \A i \in 1..Len(a.v) : DeepEqual(a.v[i], b.v[i])
    ELSE a = b

\* ------------------------------------------------------------------------
\* State
\* ------------------------------------------------------------------------
VARIABLES
    \* the sanitizers applied to an input once and again
    sFn, sInput, sDefaults, sOnce, sTwice,
    \* an export signed, possibly altered, and verified
    subtle, gRecord, gEnvelope, gTampered, gVerified,
    \* chrome.storage.sync: the two keys of the extension
    storeSettings, storeEnabled,
    \* the settings pages: the popup's defaultSettings object, the record a
    \* popup save holds while its storage read is pending, the hostname the
    \* blacklist button took from the active tab, and the last handler run
    popupDefaults, popupPending, buttonPending, lastOp,
    \* the content script in one document; whether chrome.storage.sync is
    \* there in the page, whether the flag was true when the document began to
    \* load, and what the fast path got with what the store held then
    hostname, storageAvailable, enabledAtLoad, fastPath,
    pc, emergency, emergencyRemovalInProgress, fadeTimer,
    storageListenerRegistered, listeners, mainCount, structural,
    pendingInitial, pendingChange, lastEval, loads, writes,
    \* the background worker, the snapshot its startup read holds, and whether
    \* its install handler has run
    enabledStateCache, blacklistCache, bgStarted, bgSnapshot, bgPending, installed,
    \* the ResourceMonitor of the document, the frame callbacks requested and
    \* the intervals set and not yet cancelled, and the callback that ran last
    isRunning, monitorId, rafId, frames, intervals, nextId, lastRun,
    \* the time in ms since the content script ran, the monitor's lastLoopTime,
    \* the time of the previous frame callback of the running loop, the last
    \* lag warning raised, the read and the delayed start of the
    \* initialisation, and the flag of the last change notification
    clock, lastLoopTime, loopSince, lagWarning, monitorRead, startTimer, lastFlag,
    \* the warning indicator: the elements with its id in the document, its
    \* dataset.timeoutId, the hide timers pending, the number of frame callbacks
\* of showResourceWarning pending, whether
    \* it has the class visible, and whether the last trigger cleared a timer
    indicators, timeoutId, hideTimers, showFrames, visible, cancelledHide,
    \* the structural elements of the document with their inline styles, the
    \* two mutation observers of the content script, the observers connected,
    \* the debounce timers pending, and the evaluation that ran last
    elements, structuralObserver, mediaObserver, connected, timeouts, nextObserver,
    lastResolved,
    \* the content of the document's main stylesheet, the documents of the
    \* iframes and the open shadow roots of the document
    mainStyle, iframes, shadows

sanVars == <<sFn, sInput, sDefaults, sOnce, sTwice>>
signVars == <<subtle, gRecord, gEnvelope, gTampered, gVerified>>
storeVars == <<storeSettings, storeEnabled>>
pageVars == <<popupDefaults, popupPending, buttonPending, lastOp>>
styleVars ==
    <<hostname, storageAvailable, enabledAtLoad, fastPath, pc, emergency, emergencyRemovalInProgress, fadeTimer,
      storageListenerRegistered, listeners, mainCount, structural,
      pendingInitial, pendingChange, lastEval, loads, writes>>
bgVars == <<enabledStateCache, blacklistCache, bgStarted, bgSnapshot, bgPending, installed>>
loopVars == <<isRunning, monitorId, rafId, frames, intervals, nextId, lastRun>>
lagVars == <<clock, lastLoopTime, loopSince, lagWarning, monitorRead, startTimer, lastFlag>>
warnVars == <<indicators, timeoutId, hideTimers, showFrames, visible, cancelledHide>>
monVars == <<loopVars, lagVars, warnVars>>

domVars ==
    <<elements, structuralObserver, mediaObserver, connected, timeouts, nextObserver,
      lastResolved, mainStyle, iframes, shadows>>

vars == <<sanVars, signVars, storeVars, pageVars, styleVars, bgVars, monVars, domVars>>

\* the parts of the state a specification leaves at rest
SanIdle ==
    /\ sFn = "none" /\ sInput = None /\ sDefaults = None
    /\ sOnce = None /\ sTwice = None

SignIdle ==
    /\ subtle = TRUE /\ gRecord = None /\ gEnvelope = None
    /\ gTampered = FALSE /\ gVerified = None

StoreIdle == storeSettings = Undef /\ storeEnabled = Undef

PageIdle ==
    /\ popupDefaults = PopupDefaults /\ popupPending = None
    /\ buttonPending = None /\ lastOp = [n |-> 0]

NoReply == [answer |-> "none", enabled |-> Undef, blacklisted |-> FALSE, stored |-> Undef]
NoSnapshot == [taken |-> FALSE, enabled |-> Undef, settings |-> Undef]

StyleIdle ==
    /\ hostname = HostA /\ pc = "none" /\ emergency = FALSE
    /\ storageAvailable = TRUE /\ enabledAtLoad = FALSE /\ fastPath = NoReply
    /\ emergencyRemovalInProgress = FALSE /\ fadeTimer = FALSE
    /\ storageListenerRegistered = FALSE /\ listeners = 0
    /\ mainCount = 0 /\ structural = FALSE
    /\ pendingInitial = 0 /\ pendingChange = 0 /\ lastEval = [n |-> 0]
    /\ loads = 0 /\ writes = 0

BgIdle ==
    /\ enabledStateCache = Null /\ blacklistCache = JArr(<<>>)
    /\ bgStarted = FALSE /\ bgSnapshot = NoSnapshot /\ bgPending = <<>> /\ installed = "old"

DomIdle ==
    /\ elements = <<>> /\ structuralObserver = 0 /\ mediaObserver = 0
    /\ connected = {} /\ timeouts = {} /\ nextObserver = 1
    /\ lastResolved = [n |-> 0]
    /\ mainStyle = 0 /\ iframes = <<>> /\ shadows = <<>>

MonIdle ==
    /\ isRunning = FALSE /\ monitorId = Null /\ rafId = Null
    /\ frames = {} /\ intervals = {} /\ nextId = 1 /\ lastRun = "none"
    /\ clock = 0 /\ lastLoopTime = 0 /\ loopSince = -1 /\ lagWarning = [raised |-> FALSE]
    /\ monitorRead = "none" /\ startTimer = -1 /\ lastFlag = None
    /\ indicators = 0 /\ timeoutId = Undef /\ hideTimers = {} /\ showFrames = 0
    /\ visible = FALSE /\ cancelledHide = FALSE

\* ------------------------------------------------------------------------
\* SpecSanitize: validateSettingsObject and sanitizePerSiteOverrides applied
\* to an input, and applied again to their own result
\* ------------------------------------------------------------------------
DefaultsInputs == {ConfigDefaults, PopupDefaults}

\* maps of distinct valid domains, more of them than the limit keeps
ManyCount == 150
ManyKey(i) == <<"h">> \o NatToChars(i) \o <<".", "c", "o">>
OvMany(count) == PlainObj([i \in 1..count |-> Ent(ManyKey(i), OvEmpty)])
ManyObjects == {OvMany(ManyCount), OvMany(MaxOverrides + 1), OvMany(MaxOverrides)}

\* a settings object that turns the resource monitor off
RecMonitorOff == PlainObj(<<Ent(<<"r", "e", "s", "o", "u", "r", "c", "e", "M", "o", "n", "i", "t", "o", "r", "E", "n", "a", "b", "l", "e", "d">>, JFalse), Ent(<<"d", "e", "b", "u", "g", "M", "o", "d", "e">>, JTrue)>>)

\* what sanitizePerSiteOverrides is handed: objects, JSON texts, other types
OverrideInputs ==
    OverrideObjects
    \cup ManyObjects
    \cup {JStr(Stringify(o)) : o \in OverrideObjects}
    \cup {JStr(NotJson), JStr(<<"5", "0">>), Undef, Null, JNum(10), JArr(<<OvColor>>)}

notSan == <<signVars, storeVars, pageVars, styleVars, bgVars, monVars, domVars>>

InitSanitize ==
    /\ \/ sFn = "validateSettingsObject" /\ sInput \in SettingsInputs \cup {RecMonitorOff}
       \/ sFn = "sanitizePerSiteOverrides" /\ sInput \in OverrideInputs
    /\ sDefaults \in DefaultsInputs
    /\ sOnce = None
    /\ sTwice = None
    /\ SignIdle /\ StoreIdle /\ PageIdle /\ StyleIdle /\ BgIdle /\ MonIdle /\ DomIdle

\* validateSettingsObject(r, defaults)
Validate ==
    /\ sFn = "validateSettingsObject"
    /\ IsNone(sOnce)
    /\ sOnce' = validateSettingsObject(sInput, sDefaults)
    /\ UNCHANGED <<sFn, sInput, sDefaults, sTwice, notSan>>

\* validateSettingsObject(validateSettingsObject(r, defaults), defaults)
ValidateAgain ==
    /\ sFn = "validateSettingsObject"
    /\ ~IsNone(sOnce) /\ ~IsThrow(sOnce)
    /\ IsNone(sTwice)
    /\ sTwice' = validateSettingsObject(sOnce, sDefaults)
    /\ UNCHANGED <<sFn, sInput, sDefaults, sOnce, notSan>>

\* sanitizePerSiteOverrides(overrides)
SanitizeOverrides ==
    /\ sFn = "sanitizePerSiteOverrides"
    /\ IsNone(sOnce)
    /\ sOnce' = sanitizePerSiteOverrides(sInput)
    /\ UNCHANGED <<sFn, sInput, sDefaults, sTwice, notSan>>

\* sanitizePerSiteOverrides applied to a previous result
SanitizeOverridesAgain ==
    /\ sFn = "sanitizePerSiteOverrides"
    /\ ~IsNone(sOnce) /\ ~IsThrow(sOnce)
    /\ IsNone(sTwice)
    /\ sTwice' = sanitizePerSiteOverrides(sOnce)
    /\ UNCHANGED <<sFn, sInput, sDefaults, sOnce, notSan>>

NextSanitize ==
    \/ Validate
    \/ ValidateAgain
    \/ SanitizeOverrides
    \/ SanitizeOverridesAgain

SpecSanitize == InitSanitize /\ [][NextSanitize]_vars

\* C4: validateSettingsObject is idempotent: validating a validated record
\* completes and gives a record deep-equal to the validated record
C4_ValidateIdempotent ==
    (sFn = "validateSettingsObject" /\ ~IsNone(sTwice))
        => (~IsThrow(sTwice) /\ DeepEqual(sTwice, sOnce))

\* C5: no sanitizer raises: sanitizePerSiteOverrides and
\* validateSettingsObject return a value for every input, a previous result
\* of theirs included
C5_NeverRaises == ~IsThrow(sOnce) /\ ~IsThrow(sTwice)

\* ------------------------------------------------------------------------
\* SpecSign: signSettings, a change of the envelope's data, verifySettings
\* ------------------------------------------------------------------------
\* the records that are signed
SignRecords ==
    {RecSmall, RecCollide, RecOther, ConfigDefaults,
     validateSettingsObject(RecSmall, ConfigDefaults)}

\* what the data of an envelope is replaced by
TamperValues == SignRecords \cup {Null, JNum(0), JStr(<<"x">>), PlainObj(<<>>)}

notSign == <<sanVars, storeVars, pageVars, styleVars, bgVars, monVars, domVars>>

InitSign ==
    /\ subtle \in BOOLEAN
    /\ gRecord \in SignRecords
    /\ gEnvelope = None
    /\ gTampered = FALSE
    /\ gVerified = None
    /\ SanIdle /\ StoreIdle /\ PageIdle /\ StyleIdle /\ BgIdle /\ MonIdle /\ DomIdle

\* await signSettings(r)
Sign ==
    /\ IsNone(gEnvelope)
    /\ gEnvelope' = signSettings(gRecord, subtle)
    /\ UNCHANGED <<subtle, gRecord, gTampered, gVerified, notSign>>

\* the data of the envelope is replaced by another value; version and
\* checksum stay
Tamper ==
    /\ ~IsNone(gEnvelope)
    /\ ~gTampered
    /\ IsNone(gVerified)
    /\ \E d \in TamperValues :
        /\ ~DeepEqual(d, gRecord)
        /\ gEnvelope' = Put(gEnvelope, <<"d", "a", "t", "a">>, d)
    /\ gTampered' = TRUE
    /\ UNCHANGED <<subtle, gRecord, gVerified, notSign>>

\* await verifySettings(envelope)
Verify ==
    /\ ~IsNone(gEnvelope)
    /\ IsNone(gVerified)
    /\ gVerified' = verifySettings(gEnvelope, subtle)
    /\ UNCHANGED <<subtle, gRecord, gEnvelope, gTampered, notSign>>

NextSign ==
    \/ Sign
    \/ Tamper
    \/ Verify

SpecSign == InitSign /\ [][NextSign]_vars

\* C9: sign/verify round trip: verifySettings(signSettings(r)) returns a
\* record deep-equal to r
C9_RoundTrip ==
    (~IsNone(gVerified) /\ ~gTampered) => DeepEqual(gVerified, gRecord)

C9_Witness ==
    /\ ~IsNone(gVerified) /\ ~gTampered
    /\ gRecord = validateSettingsObject(RecSmall, ConfigDefaults)
    /\ ~subtle

\* C10: tamper detection: an envelope whose data was replaced by a
\* different value, version and checksum kept, is answered with null
C10_TamperDetected ==
    (~IsNone(gVerified) /\ gTampered) => IsNull(gVerified)

\* ------------------------------------------------------------------------
\* chrome.storage.sync
\* ------------------------------------------------------------------------
\* what the store keeps of a value: its JSON content; prototypes and
\* properties holding undefined are not kept
RECURSIVE StorageCopy(_)
StorageCopy(x) ==
    CASE x.t = "object" ->
            LET shown == SelectSeq(x.v.ents, LAMBDA e : e.v.t # "undefined")
            IN  PlainObj([i \in 1..Len(shown) |-> Ent(shown[i].k, StorageCopy(shown[i].v))])
      [] x.t = "array" -> JArr([i \in 1..Len(x.v) |-> StorageCopy(x.v[i])])
      [] x.t \in {"nan", "infinity", "undefined"} -> Null
      [] OTHER -> x

SettingsKey == <<"c", "y", "b", "e", "r", "d", "a", "r", "k", "S", "e", "t", "t", "i", "n", "g", "s">>

\* the platform's limit on one item, key and JSON text together
QuotaBytesPerItem == 8192

\* chrome.storage.sync.set({cyberdarkSettings: value}): the stored record
\* afterwards; an item over the platform quota is refused
StorageSet(stored, value) ==
    IF Len(SettingsKey) + Len(Stringify(value)) <= QuotaBytesPerItem
    THEN StorageCopy(value)
    ELSE stored

\* ------------------------------------------------------------------------
\* The handlers of the settings pages
\* ------------------------------------------------------------------------
\* what a handler did: the record it was about to persist (None when it
\* ended before it had one) and whether it called chrome.storage.sync.set
Outcome(candidate, issued) == [candidate |-> candidate, issued |-> issued]

\* FormData.get(name): the field's text, null for a field that is not sent
FormGet(form, name) == IF HasOwn(form, name) THEN Get(form, name) ELSE Null

\* options.js parsePerSiteOverrides, the validation library being loaded
parsePerSiteOverrides(input) == sanitizePerSiteOverrides(input)

\* options.js saveSettings
\* the quota check and the write of a settings page, for the validated
\* record; Throw when validating raised
SaveIfFits(validated) ==
    IF IsThrow(validated) THEN Outcome(None, FALSE)
    ELSE IF ~fitsInSyncQuota(validated) THEN Outcome(validated, FALSE)
    ELSE Outcome(validated, TRUE)

\* options.js saveSettings, lines 60-80: the record read from the form, its
\* overrides already parsed
OptionsFormRecord(form, overrides) ==
    LET color(k) == Ent(k, sanitizeHexColor(FormGet(form, k), Get(ConfigDefaults, k)))
        flag(k) == Ent(k, JBool(Truthy(FormGet(form, k))))
    IN  PlainObj(<<
            color(<<"c", "o", "l", "o", "r", "1">>), color(<<"c", "o", "l", "o", "r", "2">>), color(<<"c", "o", "l", "o", "r", "3">>), color(<<"c", "o", "l", "o", "r", "4">>),
            flag(<<"t", "e", "x", "t", "S", "h", "a", "d", "o", "w">>), flag(<<"h", "i", "g", "h", "C", "o", "n", "t", "r", "a", "s", "t">>),
            flag(<<"f", "o", "c", "u", "s", "O", "u", "t", "l", "i", "n", "e">>), flag(<<"r", "e", "d", "u", "c", "e", "d", "M", "o", "t", "i", "o", "n">>),
            Ent(<<"f", "o", "n", "t", "S", "i", "z", "e">>, sanitizeFontSize(FormGet(form, <<"f", "o", "n", "t", "S", "i", "z", "e">>))),
            Ent(<<"l", "i", "n", "e", "H", "e", "i", "g", "h", "t">>, sanitizeLineHeight(FormGet(form, <<"l", "i", "n", "e", "H", "e", "i", "g", "h", "t">>))),
            Ent(<<"c", "o", "l", "o", "r", "B", "l", "i", "n", "d", "M", "o", "d", "e">>, sanitizeColorBlindMode(FormGet(form, <<"c", "o", "l", "o", "r", "B", "l", "i", "n", "d", "M", "o", "d", "e">>))),
            Ent(<<"b", "l", "a", "c", "k", "l", "i", "s", "t">>, sanitizeDomainList(OrElse(FormGet(form, <<"b", "l", "a", "c", "k", "l", "i", "s", "t">>), JStr(<<>>)))),
            Ent(<<"p", "e", "r", "S", "i", "t", "e", "O", "v", "e", "r", "r", "i", "d", "e", "s">>, overrides),
            Ent(<<"s", "c", "h", "e", "d", "u", "l", "e">>, PlainObj(<<
                Ent(<<"e", "n", "a", "b", "l", "e", "d">>, JBool(Truthy(FormGet(form, <<"s", "c", "h", "e", "d", "u", "l", "e", "E", "n", "a", "b", "l", "e", "d">>)))),
                Ent(<<"s", "t", "a", "r", "t">>, sanitizeTimeString(FormGet(form, <<"s", "c", "h", "e", "d", "u", "l", "e", "S", "t", "a", "r", "t">>), JStr(<<"2", "0", ":", "0", "0">>))),
                Ent(<<"e", "n", "d">>, sanitizeTimeString(FormGet(form, <<"s", "c", "h", "e", "d", "u", "l", "e", "E", "n", "d">>), JStr(<<"0", "6", ":", "0", "0">>)))>>)),
            flag(<<"d", "e", "b", "u", "g", "M", "o", "d", "e">>)>>)

\* options.js saveSettings from the parsed overrides on
OptionsSaveWith(form, overrides) ==
    IF IsThrow(overrides) THEN Outcome(None, FALSE)
    ELSE SaveIfFits(validateSettingsObject(OptionsFormRecord(form, overrides), ConfigDefaults))

\* options.js saveSettings
optionsSaveSettings(form) ==
    OptionsSaveWith(form, parsePerSiteOverrides(FormGet(form, <<"p", "e", "r", "S", "i", "t", "e", "O", "v", "e", "r", "r", "i", "d", "e", "s">>)))

\* parseInt(text, 10): the leading digits of the text, NaN without any
LeadingDigits(s) ==
    IF \A i \in 1..Len(s) : IsDigit(s[i]) THEN s
    ELSE SubSeq(s, 1, (CHOOSE i \in 1..Len(s) : ~IsDigit(s[i]) /\ \A j \in 1..(i - 1) : IsDigit(s[j])) - 1)
IntOfDigits(digits) == IF digits = <<>> THEN NaN ELSE JNum(10 * DigitsToNat(digits))
ParseInt(x) == IF ~IsStr(x) THEN NaN ELSE IntOfDigits(LeadingDigits(trim(x.v)))

\* text.split(/\r?\n/).map(s => s.trim()).filter(Boolean)
Trimmed(lines) == [i \in 1..Len(lines) |-> JStr(trim(lines[i]))]
PopupBlacklist(text) ==
    JArr(SelectSeq(Trimmed(SplitLines(text)), LAMBDA d : d.v # <<>>))

\* popup.js saveSettings up to its storage read: the validated record
popupSaveSettings(form, defaults) ==
    LET raw(k) == Ent(k, FormGet(form, k))
        flag(k) == Ent(k, JBool(Truthy(FormGet(form, k))))
        settings ==
            PlainObj(<<
                raw(<<"c", "o", "l", "o", "r", "1">>), raw(<<"c", "o", "l", "o", "r", "2">>), raw(<<"c", "o", "l", "o", "r", "3">>), raw(<<"c", "o", "l", "o", "r", "4">>),
                flag(<<"t", "e", "x", "t", "S", "h", "a", "d", "o", "w">>), flag(<<"h", "i", "g", "h", "C", "o", "n", "t", "r", "a", "s", "t">>),
                flag(<<"f", "o", "c", "u", "s", "O", "u", "t", "l", "i", "n", "e">>), flag(<<"r", "e", "d", "u", "c", "e", "d", "M", "o", "t", "i", "o", "n">>),
                Ent(<<"f", "o", "n", "t", "S", "i", "z", "e">>, ParseInt(FormGet(form, <<"f", "o", "n", "t", "S", "i", "z", "e">>))),
                Ent(<<"l", "i", "n", "e", "H", "e", "i", "g", "h", "t">>, JNum(15)),
                raw(<<"c", "o", "l", "o", "r", "B", "l", "i", "n", "d", "M", "o", "d", "e">>),
                Ent(<<"b", "l", "a", "c", "k", "l", "i", "s", "t">>, PopupBlacklist(OrElse(FormGet(form, <<"b", "l", "a", "c", "k", "l", "i", "s", "t">>), JStr(<<>>)).v)),
                Ent(<<"s", "c", "h", "e", "d", "u", "l", "e">>, PlainObj(<<
                    Ent(<<"e", "n", "a", "b", "l", "e", "d">>, JBool(Truthy(FormGet(form, <<"s", "c", "h", "e", "d", "u", "l", "e", "E", "n", "a", "b", "l", "e", "d">>)))),
                    Ent(<<"s", "t", "a", "r", "t">>, FormGet(form, <<"s", "c", "h", "e", "d", "u", "l", "e", "S", "t", "a", "r", "t">>)),
                    Ent(<<"e", "n", "d">>, FormGet(form, <<"s", "c", "h", "e", "d", "u", "l", "e", "E", "n", "d">>))>>)),
                flag(<<"r", "e", "s", "o", "u", "r", "c", "e", "M", "o", "n", "i", "t", "o", "r", "E", "n", "a", "b", "l", "e", "d">>),
                flag(<<"d", "e", "b", "u", "g", "M", "o", "d", "e">>),
                Ent(<<"p", "e", "r", "S", "i", "t", "e", "O", "v", "e", "r", "r", "i", "d", "e", "s">>, PlainObj(<<>>))>>)
    IN  validateSettingsObject(settings, defaults)

\* popup.js saveSettings, the callback of its storage read
popupSaveCallback(settings, stored) ==
    SaveIfFits(Put(settings, <<"p", "e", "r", "S", "i", "t", "e", "O", "v", "e", "r", "r", "i", "d", "e", "s">>,
                   OrElse(Get(OrElse(stored, PlainObj(<<>>)), <<"p", "e", "r", "S", "i", "t", "e", "O", "v", "e", "r", "r", "i", "d", "e", "s">>), PlainObj(<<>>))))

\* the import handler from the verified value on: a null ends it, and the
\* import handlers have no quota check
WriteValidated(settings) ==
    IF IsThrow(settings) THEN Outcome(None, FALSE) ELSE Outcome(settings, TRUE)
ImportVerified(verified, defaults) ==
    IF IsNull(verified) THEN Outcome(None, FALSE)
    ELSE WriteValidated(validateSettingsObject(verified, defaults))
ImportParsed(imported, defaults, crypto) ==
    IF IsThrow(imported) THEN Outcome(None, FALSE)
    ELSE ImportVerified(verifySettings(imported, crypto), defaults)

\* the import handler without the null check on the verified value: a file
\* that fails the verification is imported as it is
ImportUnverified(imported, verified, defaults) ==
    IF IsThrow(imported) THEN Outcome(None, FALSE)
    ELSE IF IsNull(verified) THEN WriteValidated(validateSettingsObject(imported, defaults))
    ELSE WriteValidated(validateSettingsObject(verified, defaults))
importSettingsUnverified(text, defaults, crypto) ==
    ImportUnverified(JSONParse(text), verifySettings(JSONParse(text), crypto), defaults)

\* reader.onload of the import handlers of options.js and popup.js
importSettings(text, defaults, crypto) == ImportParsed(JSONParse(text), defaults, crypto)

\* String(value) for the values a blacklist holds
ToStr(x) ==
    CASE x.t = "string" -> x.v
      [] x.t = "null" -> <<"n", "u", "l", "l">>
      [] x.t = "undefined" -> <<"u", "n", "d", "e", "f", "i", "n", "e", "d">>
      [] x.t = "number" -> NumToChars(x.v)
      [] x.t = "boolean" -> IF x.v THEN <<"t", "r", "u", "e">> ELSE <<"f", "a", "l", "s", "e">>
      [] OTHER -> <<"[", "o", "b", "j", "e", "c", "t", " ", "O", "b", "j", "e", "c", "t", "]">>

\* safeDomain === pattern || safeDomain.endsWith('.' + pattern), with
\* pattern = sanitizeDomain(d): TRUE, FALSE, or Throw when safeDomain is null
\* and endsWith is reached
Matches(safeDomain, pattern) ==
    IF StrictEq(safeDomain, pattern) THEN JTrue
    ELSE IF ~IsStr(safeDomain) THEN Throw
    ELSE JBool(endsWith(safeDomain.v, <<".">> \o ToStr(pattern)))
ListedAs(safeDomain, d) == Matches(safeDomain, sanitizeDomain(d))

\* popup.js, the blacklist button: the callback of its storage read, for the
\* hostname of the active tab. The record handed to storage.sync.set, or
\* Throw when the callback ends with a TypeError
Verdicts(safeDomain, items) == [i \in 1..Len(items) |-> ListedAs(safeDomain, items[i])]

\* blacklist.some(...): it stops at the first match, and a TypeError before
\* a match ends the callback
SomeListed(verdict) ==
    LET hits == {i \in 1..Len(verdict) : IsTrue(verdict[i])}
        throws == {i \in 1..Len(verdict) : IsThrow(verdict[i])}
    IN  IF \E i \in hits : \A j \in throws : i < j THEN JTrue
        ELSE IF throws # {} THEN Throw
        ELSE JFalse

\* blacklist.filter(...): every item is tested
Kept(items, verdict) ==
    IF \E i \in 1..Len(verdict) : IsThrow(verdict[i]) THEN Throw
    ELSE LET keep == SelectSeq([i \in 1..Len(items) |-> i], LAMBDA i : ~IsTrue(verdict[i]))
         IN  JArr([j \in 1..Len(keep) |-> items[keep[j]]])

\* lines 217-228, isListed known
NewBlacklist(items, safeDomain, verdict, isListed) ==
    IF IsThrow(isListed) THEN Throw
    ELSE IF IsTrue(isListed) THEN Kept(items, verdict)
    ELSE JArr(Append(items, safeDomain))

WithBlacklist(settings, blacklist) ==
    IF IsThrow(blacklist) THEN Throw ELSE Put(settings, <<"b", "l", "a", "c", "k", "l", "i", "s", "t">>, blacklist)

ButtonOn(settings, blacklist, safeDomain, verdict) ==
    WithBlacklist(settings, NewBlacklist(blacklist.v, safeDomain, verdict, SomeListed(verdict)))

ButtonWith(settings, blacklist, safeDomain) ==
    IF ~IsArr(blacklist) THEN Throw
    ELSE ButtonOn(settings, blacklist, safeDomain, Verdicts(safeDomain, blacklist.v))

ButtonFor(settings, domain) ==
    ButtonWith(settings, OrElse(Get(settings, <<"b", "l", "a", "c", "k", "l", "i", "s", "t">>), JArr(<<>>)), sanitizeDomain(JStr(domain)))

blacklistButton(stored, defaults, domain) == ButtonFor(OrElse(stored, defaults), domain)

\* ------------------------------------------------------------------------
\* SpecStore: the settings pages writing the persisted settings record
\* ------------------------------------------------------------------------
\* how many handlers the pages run
MaxOps == 2

BigText ==
    [i \in 1..(BigCount * (Len(LongDomain) + 1) - 1) |->
        IF i % (Len(LongDomain) + 1) = 0 THEN "\n"
        ELSE LongDomain[i % (Len(LongDomain) + 1)]]

MkForm(color1, fontSize, blacklist, perSiteOverrides) ==
    PlainObj(<<Ent(<<"c", "o", "l", "o", "r", "1">>, JStr(color1)), Ent(<<"c", "o", "l", "o", "r", "2">>, JStr(<<"#", "0", "0", "f", "f", "0", "0">>)),
               Ent(<<"c", "o", "l", "o", "r", "3">>, JStr(<<"#", "f", "f", "0", "0", "f", "f">>)), Ent(<<"c", "o", "l", "o", "r", "4">>, JStr(<<"#", "f", "f", "0", "0", "0", "0">>)),
               Ent(<<"t", "e", "x", "t", "S", "h", "a", "d", "o", "w">>, JStr(<<"o", "n">>)),
               Ent(<<"f", "o", "n", "t", "S", "i", "z", "e">>, JStr(fontSize)), Ent(<<"l", "i", "n", "e", "H", "e", "i", "g", "h", "t">>, JStr(<<"1", ".", "5">>)),
               Ent(<<"c", "o", "l", "o", "r", "B", "l", "i", "n", "d", "M", "o", "d", "e">>, JStr(<<"n", "o", "n", "e">>)),
               Ent(<<"b", "l", "a", "c", "k", "l", "i", "s", "t">>, JStr(blacklist)),
               Ent(<<"p", "e", "r", "S", "i", "t", "e", "O", "v", "e", "r", "r", "i", "d", "e", "s">>, JStr(perSiteOverrides)),
               Ent(<<"s", "c", "h", "e", "d", "u", "l", "e", "E", "n", "a", "b", "l", "e", "d">>, JStr(<<"o", "n">>)),
               Ent(<<"s", "c", "h", "e", "d", "u", "l", "e", "S", "t", "a", "r", "t">>, JStr(<<"0", "9", ":", "0", "0">>)), Ent(<<"s", "c", "h", "e", "d", "u", "l", "e", "E", "n", "d">>, JStr(<<"1", "7", ":", "0", "0">>)),
               Ent(<<"r", "e", "s", "o", "u", "r", "c", "e", "M", "o", "n", "i", "t", "o", "r", "E", "n", "a", "b", "l", "e", "d">>, JStr(<<"o", "n">>))>>)

OptionsForms ==
    {MkForm(<<"#", "F", "F", "F">>, <<"1", "8">>, <<"a", ".", "c", "o", "\n", "B", "B", ".", "i", "o", "\n", "n", "o", "d", "o", "t">>, Stringify(OvEmpty)),
     MkForm(<<"r", "e", "d">>, <<"3", "0">>, <<>>, Stringify(OvValid)),
     MkForm(<<"#", "F", "F", "F">>, <<"1", "8">>, BigText, NotJson)}

PopupForms ==
    {MkForm(<<"r", "e", "d">>, <<"x">>, <<" ", "a", ".", "c", "o", " ", "\r", "\n", "\n", "n", "o", "d", "o", "t">>, <<>>),
     MkForm(<<"#", "F", "F", "F">>, <<"1", "8">>, BigText, <<>>)}

\* the hostname of the active tab when the blacklist button is pressed
TabHosts == {HostSubA, HostIP}

\* what is recorded of the last handler that ran: the handler, why its
\* input was a file the import must refuse ("no" if it was not), the store
\* before it, the record
\* it was about to persist with its size, and whether it called
\* chrome.storage.sync.set
LastOp(op, refused, before, outcome) ==
    [op |-> op, refused |-> refused, before |-> before,
     candidate |-> outcome.candidate,
     size |-> IF IsNone(outcome.candidate) THEN 0 ELSE calculateObjectSize(outcome.candidate),
     issued |-> outcome.issued]

\* why an import must refuse a file: "json" when its text is not JSON,
\* "checksum" when it is a signed envelope (it has a version or a checksum)
\* whose checksum is not the checksum of its data, "no" otherwise
ChecksumMismatch(checksum, data, crypto) ==
    /\ Truthy(data)
    /\ ~StrictEq(checksum, calculateChecksum(data, crypto))
RefusedValue(imported, crypto) ==
    IF IsThrow(imported) THEN "json"
    ELSE IF /\ IsObj(imported)
            /\ Truthy(Get(imported, <<"v", "e", "r", "s", "i", "o", "n">>)) \/ Truthy(Get(imported, <<"c", "h", "e", "c", "k", "s", "u", "m">>))
            /\ ChecksumMismatch(Get(imported, <<"c", "h", "e", "c", "k", "s", "u", "m">>), Get(imported, <<"d", "a", "t", "a">>), crypto)
         THEN "checksum"
    ELSE "no"
ImportRefused(text, crypto) == RefusedValue(JSONParse(text), crypto)

\* the same for every file of the model, with and without crypto.subtle
RefusalOf == [crypto \in BOOLEAN |-> [text \in ImportTexts |-> ImportRefused(text, crypto)]]

\* the handlers that have started: those that ended and those waiting for
\* their storage read
Started ==
    lastOp.n + (IF IsNone(popupPending) THEN 0 ELSE 1)
             + (IF IsNone(buttonPending) THEN 0 ELSE 1)

notStore == <<sanVars, styleVars, bgVars, monVars, domVars, gRecord, gEnvelope, gTampered, gVerified,
              storeEnabled>>

InitStore ==
    /\ subtle \in BOOLEAN
    /\ gRecord = None /\ gEnvelope = None /\ gTampered = FALSE /\ gVerified = None
    /\ StoreIdle
    /\ popupDefaults = PopupDefaults
    /\ popupPending = None
    /\ buttonPending = None
    /\ lastOp = [n |-> 0]
    /\ SanIdle /\ StyleIdle /\ BgIdle /\ MonIdle /\ DomIdle

\* a handler ran: the store after its chrome.storage.sync.set, if it called
\* it; input is what the handler was given
RanWith(op, refused, outcome, input) ==
    /\ storeSettings' =
         IF outcome.issued THEN StorageSet(storeSettings, outcome.candidate)
         ELSE storeSettings
    /\ lastOp' = LastOp(op, refused, storeSettings, outcome)
                    @@ [n |-> lastOp.n + 1, input |-> input]
Ran(op, refused, outcome) == RanWith(op, refused, outcome, None)

\* the form or the tab a handler ran on, and whether a popup save was
\* waiting for its storage read when it ran
Given(kind, value) == [t |-> kind, v |-> value, during |-> ~IsNone(popupPending)]

\* the handler whose write came between the start of a popup save and the
\* callback of its storage read
Overtaken ==
    IF /\ lastOp.n > 0
       /\ lastOp.op \in {"blacklistButton", "optionsSave"}
       /\ lastOp.issued /\ lastOp.input.during
    THEN [t |-> "overtaken", v |-> lastOp]
    ELSE None

\* options page: the form is submitted
OptionsSave ==
    /\ Started < MaxOps
    /\ \E form \in OptionsForms :
          RanWith("optionsSave", "no", optionsSaveSettings(form), Given("form", form))
    /\ UNCHANGED <<subtle, popupDefaults, popupPending, buttonPending, notStore>>

\* options page: the reset button
OptionsReset ==
    /\ Started < MaxOps
    /\ Ran("optionsReset", "no", Outcome(ConfigDefaults, TRUE))
    /\ UNCHANGED <<subtle, popupDefaults, popupPending, buttonPending, notStore>>

\* options page: a file is chosen for import
OptionsImport ==
    /\ Started < MaxOps
    /\ \E text \in ImportTexts :
        Ran("optionsImport", RefusalOf[subtle][text], importSettings(text, ConfigDefaults, subtle))
    /\ UNCHANGED <<subtle, popupDefaults, popupPending, buttonPending, notStore>>

\* popup: a form input changes; saveSettings validates and reads the store
PopupSave ==
    /\ Started < MaxOps
    /\ IsNone(popupPending)
    /\ \E form \in PopupForms : popupPending' = popupSaveSettings(form, popupDefaults)
    /\ UNCHANGED <<subtle, storeSettings, popupDefaults, buttonPending, lastOp, notStore>>

\* popup: the storage read of saveSettings calls back
PopupSaveCallback ==
    /\ ~IsNone(popupPending)
    /\ RanWith("popupSave", "no", popupSaveCallback(popupPending, storeSettings), Overtaken)
    /\ popupPending' = None
    /\ UNCHANGED <<subtle, popupDefaults, buttonPending, notStore>>

\* popup: a file is chosen for import
PopupImport ==
    /\ Started < MaxOps
    /\ \E text \in ImportTexts :
        Ran("popupImport", RefusalOf[subtle][text], importSettings(text, popupDefaults, subtle))
    /\ UNCHANGED <<subtle, popupDefaults, popupPending, buttonPending, notStore>>

\* popup: the reset button, confirmed
PopupReset ==
    /\ Started < MaxOps
    /\ Ran("popupReset", "no", Outcome(popupDefaults, TRUE))
    /\ UNCHANGED <<subtle, popupDefaults, popupPending, buttonPending, notStore>>

\* popup: the blacklist button is pressed; the active tab is looked up and
\* the store is read
BlacklistClick ==
    /\ Started < MaxOps
    /\ IsNone(buttonPending)
    /\ \E host \in TabHosts : buttonPending' = JStr(host)
    /\ UNCHANGED <<subtle, storeSettings, popupDefaults, popupPending, lastOp, notStore>>

\* popup: the storage read of the blacklist button calls back
BlacklistCallback ==
    /\ ~IsNone(buttonPending)
    /\ \E settings \in {blacklistButton(storeSettings, popupDefaults, buttonPending.v)} :
           /\ RanWith("blacklistButton", "no",
                      IF IsThrow(settings) THEN Outcome(None, FALSE) ELSE Outcome(settings, TRUE),
                      Given("tab", buttonPending))
           \* without a stored record, settings is the defaultSettings object
           \* itself, and its blacklist is assigned
           /\ popupDefaults' =
                IF ~IsThrow(settings) /\ ~Truthy(storeSettings) THEN settings
                ELSE popupDefaults
    /\ buttonPending' = None
    /\ UNCHANGED <<subtle, popupPending, notStore>>

\* the popup is closed and opened again: popup.js runs afresh
PopupOpen ==
    /\ IsNone(popupPending) /\ IsNone(buttonPending)
    /\ popupDefaults # PopupDefaults
    /\ popupDefaults' = PopupDefaults
    /\ UNCHANGED <<subtle, storeSettings, popupPending, buttonPending, lastOp, notStore>>

NextStore ==
    \/ OptionsSave
    \/ OptionsReset
    \/ OptionsImport
    \/ PopupSave
    \/ PopupSaveCallback
    \/ PopupImport
    \/ PopupReset
    \/ BlacklistClick
    \/ BlacklistCallback
    \/ PopupOpen

SpecStore == InitStore /\ [][NextStore]_vars

\* ------------------------------------------------------------------------
\* Properties of the write paths
\* ------------------------------------------------------------------------
\* the same stored value
SameStored(a, b) == a.t = b.t /\ a = b

\* a record as validateSettingsObject leaves it: validating it again, with
\* the defaults of the extension, gives the record back
IsValidated(record) ==
    \E again \in {validateSettingsObject(record, ConfigDefaults)} :
        ~IsThrow(again) /\ DeepEqual(again, record)

\* a blacklist of valid domain strings only
IsDomainList(list) ==
    /\ IsArr(list)
    /\ \A i \in 1..Len(list.v) :
          IsStr(list.v[i]) /\ StrictEq(sanitizeDomain(list.v[i]), list.v[i])

\* a map of overrides as sanitizePerSiteOverrides leaves it
IsSanitizedMap(map) ==
    /\ IsObj(map)
    /\ \E again \in {sanitizePerSiteOverrides(map)} :
          ~IsThrow(again) /\ DeepEqual(again, map)

\* C6: every value a write path hands to chrome.storage.sync.set under
\* cyberdarkSettings is, as stored, a fixed point of validateSettingsObject
\* whose blacklist holds only valid domain strings and whose perSiteOverrides
\* is a sanitized map
C6_WritesAreValidated ==
    (lastOp.n > 0 /\ lastOp.issued) =>
        \E written \in {StorageCopy(lastOp.candidate)} :
            /\ IsValidated(written)
            /\ IsDomainList(Get(written, <<"b", "l", "a", "c", "k", "l", "i", "s", "t">>))
            /\ IsSanitizedMap(Get(written, <<"p", "e", "r", "S", "i", "t", "e", "O", "v", "e", "r", "r", "i", "d", "e", "s">>))

\* the handlers that C7 names
QuotaPaths == {"optionsSave", "popupSave", "optionsImport", "popupImport"}

\* C7: when the record a save or an import is about to persist serializes to
\* 8000 bytes or more, the handler issues no write and the stored record is
\* the one from before
C7_QuotaAbortsWrite ==
    (/\ lastOp.n > 0
     /\ lastOp.op \in QuotaPaths
     /\ ~IsNone(lastOp.candidate)
     /\ lastOp.size >= SyncQuotaBytes)
        => (~lastOp.issued /\ SameStored(storeSettings, lastOp.before))

ImportPaths == {"optionsImport", "popupImport"}

C8_WitnessJson ==
    /\ lastOp.n > 0
    /\ lastOp.op = "optionsImport"
    /\ lastOp.refused = "json"
    /\ IsObj(storeSettings)

\* a form whose per-site overrides text is a JSON object with an override
\* for a valid domain, and whose record is within the quota
ValidOverrideForm(form) ==
    LET text == FormGet(form, <<"p", "e", "r", "S", "i", "t", "e", "O", "v", "e", "r", "r", "i", "d", "e", "s">>)
        parsed == IF IsStr(text) THEN JSONParse(text.v) ELSE Throw
    IN  /\ IsObj(parsed)
        /\ \E i \in 1..Len(Keys(parsed)) :
              /\ Truthy(sanitizeDomain(JStr(Keys(parsed)[i])))
              /\ IsObj(Get(parsed, Keys(parsed)[i]))
        /\ fitsInSyncQuota(OptionsFormRecord(form, parsed))

\* C39: an options-page save of a form with a valid per-site override
\* whose record fits the quota raises nowhere, issues the write, and leaves
\* the validated record as the stored settings
C39_OptionsSavePersists ==
    (lastOp.n > 0 /\ lastOp.op = "optionsSave" /\ ValidOverrideForm(lastOp.input.v))
        => /\ lastOp.issued
           /\ SameStored(storeSettings, StorageCopy(lastOp.candidate))

BlacklistOf(record) ==
    IF IsObj(record) THEN Get(record, <<"b", "l", "a", "c", "k", "l", "i", "s", "t">>) ELSE Undef
OverridesOf(record) ==
    IF IsObj(record) THEN Get(record, <<"p", "e", "r", "S", "i", "t", "e", "O", "v", "e", "r", "r", "i", "d", "e", "s">>) ELSE Undef
Contains(list, entry) ==
    IsArr(list) /\ \E i \in 1..Len(list.v) : StrictEq(list.v[i], entry)

\* the entry the blacklist button added to the stored blacklist, None when
\* it added none
ButtonAdded(op) ==
    LET entry == sanitizeDomain(op.input.v)
    IN  IF /\ IsStr(entry)
           /\ Contains(BlacklistOf(op.candidate), entry)
           /\ ~Contains(BlacklistOf(op.before), entry)
        THEN entry ELSE None

\* C40: when the write of the blacklist button or of an options-page save
\* comes between the start of a popup save and the write of that save, the
\* stored record after the popup's write holds the blacklist entry the
\* button added and the per-site overrides the options page wrote
C40_NoLostUpdate ==
    (lastOp.n > 0 /\ lastOp.op = "popupSave" /\ lastOp.issued /\ ~IsNone(lastOp.input))
        => /\ (lastOp.input.v.op = "blacklistButton" /\ ~IsNone(ButtonAdded(lastOp.input.v)))
                => Contains(BlacklistOf(storeSettings), ButtonAdded(lastOp.input.v))
           /\ lastOp.input.v.op = "optionsSave"
                => SameStored(OverridesOf(storeSettings),
                              OverridesOf(StorageCopy(lastOp.input.v.candidate)))

\* ------------------------------------------------------------------------
\* config.js and background.js : hostname matching
\* ------------------------------------------------------------------------
PROBLEMATIC_SITES ==
    <<JStr(<<"d", "o", "c", "s", ".", "g", "o", "o", "g", "l", "e", ".", "c", "o", "m">>), JStr(<<"s", "h", "e", "e", "t", "s", ".", "g", "o", "o", "g", "l", "e", ".", "c", "o", "m">>), JStr(<<"s", "l", "i", "d", "e", "s", ".", "g", "o", "o", "g", "l", "e", ".", "c", "o", "m">>),
      JStr(<<"f", "i", "g", "m", "a", ".", "c", "o", "m">>), JStr(<<"c", "h", "r", "o", "m", "e", ".", "g", "o", "o", "g", "l", "e", ".", "c", "o", "m">>)>>

\* a match on any suffix
SameOrSuffix(h, p) == endsWith(h, p)

\* h === p || h.endsWith('.' + p), both already lowercased
SameOrSubdomain(h, p) == h = p \/ endsWith(h, <<".">> \o p)

\* hostMatches of config.js and of background.js, which are the same
hostMatches(host, pattern) ==
    IF ~Truthy(host) \/ ~Truthy(pattern) THEN FALSE
    ELSE SameOrSubdomain(toLowerCase(ToStr(host)), toLowerCase(ToStr(pattern)))

SomeMatches(domain, patterns) ==
    \E i \in 1..Len(patterns) : hostMatches(domain, patterns[i])

\* config.js isBlacklisted(domain, blacklist = [])
isBlacklisted(domain, blacklist) ==
    \/ IsArr(blacklist) /\ SomeMatches(domain, blacklist.v)
    \/ SomeMatches(domain, PROBLEMATIC_SITES)

\* background.js isBlacklisted(hostname), over the cached blacklist
cacheIsBlacklisted(host, cache) ==
    SomeMatches(host, (IF IsArr(cache) THEN cache.v ELSE <<>>) \o PROBLEMATIC_SITES)

\* ------------------------------------------------------------------------
\* content.js : one evaluation of the stored state
\* ------------------------------------------------------------------------
COLORBLIND_PALETTES ==
    PlainObj(<<
        Ent(<<"p", "r", "o", "t", "a", "n", "o", "p", "i", "a">>, PlainObj(<<Ent(<<"c", "o", "l", "o", "r", "1">>, JStr(<<"#", "0", "0", "7", "2", "c", "e">>)), Ent(<<"c", "o", "l", "o", "r", "2">>, JStr(<<"#", "f", "0", "e", "4", "4", "2">>)),
                                       Ent(<<"c", "o", "l", "o", "r", "3">>, JStr(<<"#", "5", "6", "b", "4", "e", "9">>)), Ent(<<"c", "o", "l", "o", "r", "4">>, JStr(<<"#", "e", "6", "9", "f", "0", "0">>))>>)),
        Ent(<<"d", "e", "u", "t", "e", "r", "a", "n", "o", "p", "i", "a">>, PlainObj(<<Ent(<<"c", "o", "l", "o", "r", "1">>, JStr(<<"#", "0", "0", "7", "2", "c", "e">>)), Ent(<<"c", "o", "l", "o", "r", "2">>, JStr(<<"#", "f", "0", "e", "4", "4", "2">>)),
                                         Ent(<<"c", "o", "l", "o", "r", "3">>, JStr(<<"#", "5", "6", "b", "4", "e", "9">>)), Ent(<<"c", "o", "l", "o", "r", "4">>, JStr(<<"#", "d", "5", "5", "e", "0", "0">>))>>)),
        Ent(<<"t", "r", "i", "t", "a", "n", "o", "p", "i", "a">>, PlainObj(<<Ent(<<"c", "o", "l", "o", "r", "1">>, JStr(<<"#", "d", "5", "5", "e", "0", "0">>)), Ent(<<"c", "o", "l", "o", "r", "2">>, JStr(<<"#", "0", "0", "9", "e", "7", "3">>)),
                                       Ent(<<"c", "o", "l", "o", "r", "3">>, JStr(<<"#", "f", "0", "e", "4", "4", "2">>)), Ent(<<"c", "o", "l", "o", "r", "4">>, JStr(<<"#", "c", "c", "7", "9", "a", "7">>))>>)),
        Ent(<<"a", "c", "h", "r", "o", "m", "a", "t", "o", "p", "s", "i", "a">>, PlainObj(<<Ent(<<"c", "o", "l", "o", "r", "1">>, JStr(<<"#", "f", "f", "f", "f", "f", "f">>)), Ent(<<"c", "o", "l", "o", "r", "2">>, JStr(<<"#", "a", "a", "a", "a", "a", "a">>)),
                                          Ent(<<"c", "o", "l", "o", "r", "3">>, JStr(<<"#", "8", "8", "8", "8", "8", "8">>)), Ent(<<"c", "o", "l", "o", "r", "4">>, JStr(<<"#", "4", "4", "4", "4", "4", "4">>))>>))>>)

\* Object.assign({}, cyberdarkDefaults, stored || {})
MergedSettings(stored) ==
    Assign(Assign(PlainObj(<<>>), ConfigDefaults), OrElse(stored, PlainObj(<<>>)))

\* (settings.perSiteOverrides && settings.perSiteOverrides[domain]) || {}
OverridesIn(perSite, domain) ==
    OrElse(IF Truthy(perSite) THEN Get(perSite, domain) ELSE perSite, PlainObj(<<>>))

\* Object.assign({}, settings, overrides)
WithOverrides(settings, domain) ==
    Assign(Assign(PlainObj(<<>>), settings), OverridesIn(Get(settings, <<"p", "e", "r", "S", "i", "t", "e", "O", "v", "e", "r", "r", "i", "d", "e", "s">>), domain))

FinalSettings(stored, domain) == WithOverrides(MergedSettings(stored), domain)

\* "HH:MM".split(':').map(Number), hours * 60 + minutes
MinutesOfParts(parts) ==
    (ToNumber(JStr(parts[1])).v * 60 + ToNumber(JStr(parts[2])).v) \div 10
TimeOfDay(text) == MinutesOfParts(split(text, ":"))

\* the window read with start <= end as the daytime case
InWindowDaytimeFirst(currentTime, startTime, endTime) ==
    IF startTime <= endTime
    THEN currentTime >= startTime /\ currentTime < endTime
    ELSE currentTime >= startTime \/ currentTime < endTime

\* lines 564-570: the window of the schedule
InWindow(currentTime, startTime, endTime) ==
    IF startTime < endTime
    THEN currentTime >= startTime /\ currentTime < endTime
    ELSE currentTime >= startTime \/ currentTime < endTime

\* lines 552-574: the scheduling check of the initial evaluation
ScheduleAllows(schedule, currentTime) ==
    IF Truthy(schedule) /\ Truthy(Get(schedule, <<"e", "n", "a", "b", "l", "e", "d">>))
    THEN InWindow(currentTime, TimeOfDay(Get(schedule, <<"s", "t", "a", "r", "t">>).v), TimeOfDay(Get(schedule, <<"e", "n", "d">>).v))
    ELSE TRUE

\* the palette applyCyberdarkStyles interpolates, lines 184-202
ModePalette(settings, mode) ==
    IF Truthy(mode) /\ ~StrictEq(mode, JStr(<<"n", "o", "n", "e">>)) /\ IsStr(mode)
       /\ Truthy(Get(COLORBLIND_PALETTES, mode.v))
    THEN Get(COLORBLIND_PALETTES, mode.v)
    ELSE settings
\* the palette handed on as it was chosen
AppliedPaletteUnsanitized(settings) ==
    ModePalette(settings,
                IF IsTrue(Get(settings, <<"c", "o", "l", "o", "r", "B", "l", "i", "n", "d", "M", "o", "d", "e">>)) THEN JStr(<<"p", "r", "o", "t", "a", "n", "o", "p", "i", "a">>)
                ELSE Get(settings, <<"c", "o", "l", "o", "r", "B", "l", "i", "n", "d", "M", "o", "d", "e">>))

AppliedPalette(settings) ==
    sanitizeColorPalette(
        ModePalette(settings,
                    IF IsTrue(Get(settings, <<"c", "o", "l", "o", "r", "B", "l", "i", "n", "d", "M", "o", "d", "e">>)) THEN JStr(<<"p", "r", "o", "t", "a", "n", "o", "p", "i", "a">>)
                    ELSE Get(settings, <<"c", "o", "l", "o", "r", "B", "l", "i", "n", "d", "M", "o", "d", "e">>)),
        ConfigDefaults)

\* ------------------------------------------------------------------------
\* SpecStyle: the content script in one document, the stored state it reads
\* and the background worker whose caches answer its first question
\* ------------------------------------------------------------------------
MaxWrites == 1
MaxLoads == 2

HostDocs == <<"d", "o", "c", "s", ".", "g", "o", "o", "g", "l", "e", ".", "c", "o", "m">>
StyleHosts == {HostSubA, HostDocs}

\* now.getHours() * 60 + now.getMinutes() at the moments the clock is read
SampleTimes == {600, 720, 1080, 1380}

SetListed == MkSettings(Undef, Undef, Undef, JArr(<<JStr(<<"A", ".", "c", "o">>)>>), Undef, Undef)
SetNight ==
    MkSettings(JStr(<<"r", "e", "d", ";", "}">>), Undef, Undef, JArr(<<>>), Undef,
               MkSchedule(JTrue, <<"2", "0", ":", "0", "0">>, <<"0", "6", ":", "0", "0">>))
SetDay ==
    MkSettings(Undef, Undef, JTrue, JArr(<<JStr(HostB)>>), Undef,
               MkSchedule(JTrue, <<"0", "9", ":", "0", "0">>, <<"1", "7", ":", "0", "0">>))
SetAlways ==
    MkSettings(Undef, Undef, Undef, Undef, PlainObj(<<Ent(HostSubA, OvColor)>>),
               MkSchedule(JTrue, <<"0", "8", ":", "0", "0">>, <<"0", "8", ":", "0", "0">>))
StyleSettings == {SetListed, SetNight, SetDay, SetAlways}

\* applyCyberdarkStyles on the main style elements of the target: the first
\* match is removed, the new element is appended when none is left
MainAfterApplyAppending(count) == count + 1
MainAfterApply(count) ==
    IF (IF count > 0 THEN count - 1 ELSE 0) = 0 THEN 1 ELSE count - 1

\* removeCyberdarkStyles on them: the first match is removed
MainAfterRemove(count) == IF count > 0 THEN count - 1 ELSE 0

\* removeEmergencyDark(animate)
removeEmergencyDark(animate) ==
    IF ~emergency \/ emergencyRemovalInProgress
    THEN UNCHANGED <<emergency, emergencyRemovalInProgress, fadeTimer>>
    ELSE IF animate
         THEN /\ emergencyRemovalInProgress' = TRUE
              /\ fadeTimer' = TRUE
              /\ UNCHANGED emergency
         ELSE /\ emergency' = FALSE
              /\ UNCHANGED <<emergencyRemovalInProgress, fadeTimer>>

\* the callback of the 150 ms timer of removeEmergencyDark(true)
FadeTimer ==
    /\ fadeTimer
    /\ emergency' = FALSE
    /\ emergencyRemovalInProgress' = FALSE
    /\ fadeTimer' = FALSE
    /\ UNCHANGED <<hostname, storageAvailable, enabledAtLoad, fastPath, pc, storageListenerRegistered, listeners, mainCount,
                   structural, pendingInitial, pendingChange, lastEval, loads, writes>>

\* the colours a call of applyCyberdarkStyles interpolates
Colors(palette) ==
    <<Get(palette, <<"c", "o", "l", "o", "r", "1">>), Get(palette, <<"c", "o", "l", "o", "r", "2">>),
      Get(palette, <<"c", "o", "l", "o", "r", "3">>), Get(palette, <<"c", "o", "l", "o", "r", "4">>)>>

ScheduleGate(schedule) == Truthy(schedule) /\ Truthy(Get(schedule, <<"e", "n", "a", "b", "l", "e", "d">>))

Capped(n) == IF n < 2 THEN n + 1 ELSE 2

\* what an evaluation leaves on record
Evaluation(kind, enabled, blacklisted, schedule, now, shouldApply, colors) ==
    [n |-> Capped(lastEval.n), kind |-> kind, enabled |-> enabled,
     blacklisted |-> blacklisted,
     gated |-> kind = "initial" /\ enabled /\ ~blacklisted /\ ScheduleGate(schedule),
     schedule |-> IF enabled /\ ~blacklisted /\ ScheduleGate(schedule)
                  THEN schedule ELSE Undef,
     now |-> now,
     shouldApply |-> shouldApply,
     colors |-> colors,
     applies |-> IF shouldApply
                 THEN Capped(IF lastEval.n = 0 THEN 0 ELSE lastEval.applies)
                 ELSE IF lastEval.n = 0 THEN 0 ELSE lastEval.applies]

\* both branches of an evaluation, lines 577-628 and 641-660
Resolve(kind, enabled, blacklisted, schedule, now, shouldApply, finalSettings) ==
    /\ IF shouldApply
       THEN /\ removeEmergencyDark(TRUE)
            /\ mainCount' = MainAfterApply(mainCount)
            /\ structural' = TRUE
            /\ lastEval' = Evaluation(kind, enabled, blacklisted, schedule, now, TRUE,
                                      Colors(AppliedPalette(finalSettings)))
       ELSE /\ removeEmergencyDark(FALSE)
            /\ mainCount' = MainAfterRemove(mainCount)
            /\ structural' = FALSE
            /\ lastEval' = Evaluation(kind, enabled, blacklisted, schedule, now, FALSE, <<>>)
    /\ UNCHANGED <<hostname, storageAvailable, enabledAtLoad, fastPath, pc, storageListenerRegistered, listeners, loads, writes>>

\* lines 553-575 and 641: the initial evaluation reads the clock when it
\* consults the schedule; the change listener consults neither, and the time
\* its callback runs at is kept on record where a schedule is enabled
Gate(kind, enabled, blacklisted, schedule, finalSettings) ==
    IF enabled /\ ~blacklisted /\ ScheduleGate(schedule)
    THEN \E now \in SampleTimes :
            Resolve(kind, enabled, blacklisted, schedule, now,
                    IF kind = "initial" THEN ScheduleAllows(schedule, now) ELSE TRUE,
                    finalSettings)
    ELSE Resolve(kind, enabled, blacklisted, schedule, 0,
                 enabled /\ ~blacklisted, finalSettings)

Evaluate(kind, finalSettings) ==
    Gate(kind, IsTrue(storeEnabled),
         isBlacklisted(JStr(hostname), Get(finalSettings, <<"b", "l", "a", "c", "k", "l", "i", "s", "t">>)),
         Get(finalSettings, <<"s", "c", "h", "e", "d", "u", "l", "e">>), finalSettings)

notStyle == <<sanVars, signVars, pageVars, monVars, domVars>>

\* initCyberdark: the reply of the background worker, lines 690-703
FastPathReply ==
    /\ pc = "init"
    /\ fastPath' = [answer |-> "reply", enabled |-> enabledStateCache,
                    blacklisted |-> cacheIsBlacklisted(JStr(hostname), blacklistCache),
                    stored |-> storeEnabled]
    /\ \E blacklisted \in {cacheIsBlacklisted(JStr(hostname), blacklistCache)} :
          IF IsFalse(enabledStateCache) \/ blacklisted
          THEN removeEmergencyDark(FALSE)
          ELSE UNCHANGED <<emergency, emergencyRemovalInProgress, fadeTimer>>
    /\ pc' = IF IsFalse(enabledStateCache) THEN "off" ELSE "ready"
    /\ UNCHANGED <<hostname, storageAvailable, enabledAtLoad, storageListenerRegistered, listeners, mainCount, structural,
                   pendingInitial, pendingChange, lastEval, loads, writes>>
    /\ UNCHANGED <<storeVars, bgVars, notStyle>>

\* initCyberdark: sendMessage rejects, lines 711-720
FastPathFails ==
    /\ pc = "init"
    /\ pc' = "ready"
    /\ fastPath' = [answer |-> "failed", enabled |-> Undef, blacklisted |-> FALSE,
                    stored |-> storeEnabled]
    /\ UNCHANGED <<hostname, storageAvailable, enabledAtLoad, emergency, emergencyRemovalInProgress, fadeTimer,
                   storageListenerRegistered, listeners, mainCount, structural,
                   pendingInitial, pendingChange, lastEval, loads, writes>>
    /\ UNCHANGED <<storeVars, bgVars, notStyle>>

\* the listener registration of loadAndApplyCyberdark, lines 631-664
ListenersAfterLoadUnguarded(registered, count) == count + 1
ListenersAfterLoad(registered, count) == IF ~registered THEN count + 1 ELSE count

\* loadAndApplyCyberdark: the storage read is issued and the listener added
LoadAndApply ==
    /\ \/ pc = "ready" /\ loads = 0
       \/ loads \in 1..(MaxLoads - 1)
    /\ loads' = loads + 1
    /\ pc' = "loaded"
    /\ IF storageAvailable
       THEN /\ pendingInitial' = pendingInitial + 1
            /\ listeners' = ListenersAfterLoad(storageListenerRegistered, listeners)
            /\ storageListenerRegistered' = TRUE
       ELSE UNCHANGED <<pendingInitial, listeners, storageListenerRegistered>>
    /\ UNCHANGED <<hostname, storageAvailable, enabledAtLoad, fastPath, emergency, emergencyRemovalInProgress, fadeTimer, mainCount,
                   structural, pendingChange, lastEval, writes>>
    /\ UNCHANGED <<storeVars, bgVars, notStyle>>

\* the callback of the storage read of loadAndApplyCyberdark, lines 544-629
InitialCallback ==
    /\ pendingInitial > 0
    /\ pendingInitial' = pendingInitial - 1
    /\ \E finalSettings \in {FinalSettings(storeSettings, hostname)} :
          Evaluate("initial", finalSettings)
    /\ UNCHANGED pendingChange
    /\ UNCHANGED <<storeVars, bgVars, notStyle>>

\* the callback of the storage read of the change listener, lines 634-661
ChangeCallback ==
    /\ pendingChange > 0
    /\ pendingChange' = pendingChange - 1
    /\ \E finalSettings \in {FinalSettings(storeSettings, hostname)} :
          Evaluate("change", finalSettings)
    /\ UNCHANGED pendingInitial
    /\ UNCHANGED <<storeVars, bgVars, notStyle>>

StyleFadeTimer == FadeTimer /\ UNCHANGED <<storeVars, bgVars, notStyle>>

\* chrome.storage.onChanged reaches the listeners of the document and of the
\* background worker for the keys whose value changed
Notified(key, value) ==
    /\ pendingChange' = pendingChange + listeners
    /\ bgPending' = Append(bgPending, [key |-> key, newValue |-> value])
    /\ UNCHANGED <<hostname, storageAvailable, enabledAtLoad, fastPath, pc, emergency, emergencyRemovalInProgress, fadeTimer,
                   storageListenerRegistered, listeners, mainCount, structural,
                   pendingInitial, lastEval, loads>>
    /\ UNCHANGED <<enabledStateCache, blacklistCache, bgStarted, bgSnapshot, notStyle>>

\* the popup's toggle writes cyberdarkEnabled
ToggleEnabled ==
    /\ installed # "no"
    /\ writes < MaxWrites
    /\ \E value \in {JTrue, JFalse} :
          /\ ~StrictEq(value, storeEnabled)
          /\ storeEnabled' = value
          /\ Notified("cyberdarkEnabled", value)
    /\ writes' = writes + 1
    /\ UNCHANGED <<storeSettings, installed>>

\* a settings page writes cyberdarkSettings
WriteSettings ==
    /\ installed # "no"
    /\ writes < MaxWrites
    /\ \E value \in StyleSettings :
          /\ ~SameStored(value, storeSettings)
          /\ storeSettings' = value
          /\ Notified("cyberdarkSettings", value)
    /\ writes' = writes + 1
    /\ UNCHANGED <<storeEnabled, installed>>

\* background.js chrome.runtime.onInstalled with reason 'install'
OnInstalled ==
    /\ installed = "no"
    /\ installed' = "fresh"
    /\ storeEnabled' = JFalse
    /\ Notified("cyberdarkEnabled", JFalse)
    /\ UNCHANGED <<storeSettings, writes>>

\* background.js: the storage read at startup is served, its result is the
\* store at that moment
BgRead ==
    /\ ~bgStarted /\ ~bgSnapshot.taken
    /\ bgSnapshot' = [taken |-> TRUE, enabled |-> storeEnabled, settings |-> storeSettings]
    /\ UNCHANGED <<enabledStateCache, blacklistCache, bgStarted, bgPending, installed>>
    /\ UNCHANGED <<storeVars, styleVars, notStyle>>

\* background.js: the callback of the storage read at startup
BgStartup ==
    /\ ~bgStarted /\ bgSnapshot.taken
    /\ bgStarted' = TRUE
    /\ enabledStateCache' = JBool(IsTrue(bgSnapshot.enabled))
    /\ blacklistCache' =
          OrElse(IF IsObj(bgSnapshot.settings) THEN Get(bgSnapshot.settings, <<"b", "l", "a", "c", "k", "l", "i", "s", "t">>) ELSE Undef,
                 JArr(<<>>))
    /\ UNCHANGED <<bgSnapshot, bgPending, installed>>
    /\ UNCHANGED <<storeVars, styleVars, notStyle>>

\* background.js: the change listener that keeps the caches
BgOnChanged ==
    /\ bgPending # <<>>
    /\ bgPending' = Tail(bgPending)
    /\ IF Head(bgPending).key = "cyberdarkEnabled"
       THEN /\ enabledStateCache' = JBool(IsTrue(Head(bgPending).newValue))
            /\ UNCHANGED blacklistCache
       ELSE /\ blacklistCache' =
                  OrElse(IF IsObj(Head(bgPending).newValue)
                         THEN Get(Head(bgPending).newValue, <<"b", "l", "a", "c", "k", "l", "i", "s", "t">>) ELSE Undef,
                         JArr(<<>>))
            /\ UNCHANGED enabledStateCache
    /\ UNCHANGED <<bgStarted, bgSnapshot, installed>>
    /\ UNCHANGED <<storeVars, styleVars, notStyle>>

InitStyle ==
    /\ \/ installed = "no" /\ StoreIdle
       \/ /\ installed = "old"
          /\ storeEnabled \in {Undef, JTrue, JFalse}
          /\ storeSettings \in StyleSettings \cup {Undef}
    /\ hostname \in StyleHosts
    /\ storageAvailable \in BOOLEAN
    /\ enabledAtLoad = IsTrue(storeEnabled)
    /\ fastPath = NoReply
    /\ pc = "init"
    /\ emergency \in BOOLEAN
    /\ emergencyRemovalInProgress = FALSE /\ fadeTimer = FALSE
    /\ storageListenerRegistered = FALSE /\ listeners = 0
    /\ mainCount = 0 /\ structural = FALSE
    /\ pendingInitial = 0 /\ pendingChange = 0 /\ lastEval = [n |-> 0]
    /\ loads = 0 /\ writes = 0
    /\ enabledStateCache = Null /\ blacklistCache = JArr(<<>>)
    /\ bgStarted = FALSE /\ bgSnapshot = NoSnapshot /\ bgPending = <<>>
    /\ SanIdle /\ SignIdle /\ PageIdle /\ MonIdle /\ DomIdle

\* the background worker as the document sees it: once the fast path has
\* been answered nothing the worker does reaches the document
WorkerRead == pc = "init" /\ BgRead
WorkerStartup == pc = "init" /\ BgStartup
WorkerOnChanged == pc = "init" /\ BgOnChanged

NextStyle ==
    \/ FastPathReply
    \/ FastPathFails
    \/ LoadAndApply
    \/ InitialCallback
    \/ ChangeCallback
    \/ StyleFadeTimer
    \/ ToggleEnabled
    \/ WriteSettings
    \/ OnInstalled
    \/ WorkerRead
    \/ WorkerStartup
    \/ WorkerOnChanged

SpecStyle == InitStyle /\ [][NextStyle]_vars

\* a document with the emergency stylesheet on a host that no list names,
\* before any settings were saved
InitStyleFair ==
    /\ InitStyle
    /\ hostname = HostSubA
    /\ ~IsObj(storeSettings)
    /\ emergency

\* the callbacks and timers the browser owes are delivered; nobody owes a
\* write of the store or a second call of loadAndApplyCyberdark. The weak
\* fairness of the two storage callbacks is written out, their ENABLED being
\* that a read is pending
SpecStyleFair ==
    /\ InitStyleFair /\ [][NextStyle]_vars
    /\ WF_vars(FastPathReply \/ FastPathFails)
    /\ WF_vars(LoadAndApply /\ loads = 0)
    /\ ([]<>(pendingInitial = 0) \/ []<><<InitialCallback>>_vars)
    /\ ([]<>(pendingChange = 0) \/ []<><<ChangeCallback>>_vars)
    /\ WF_vars(StyleFadeTimer)
    /\ WF_vars(WorkerRead)
    /\ WF_vars(WorkerStartup)
    /\ WF_vars(WorkerOnChanged)

\* ------------------------------------------------------------------------
\* Properties of the content script
\* ------------------------------------------------------------------------
Evaluated == lastEval.n > 0

\* C1: after any sequence of one or more applyCyberdarkStyles calls on the
\* document exactly one main style element is present, never a duplicate
C1_OneMainStylesheet ==
    /\ mainCount <= 1
    /\ (Evaluated /\ lastEval.shouldApply) => mainCount = 1

C1_Witness ==
    Evaluated /\ lastEval.shouldApply /\ lastEval.applies = 2 /\ mainCount = 1

\* C2: with the flag true and the hostname blacklisted, every evaluation
\* resolves shouldApply = false and leaves no main, structural or emergency
\* style element in the document once it has completed
C2_BlacklistedLeavesNothing ==
    (Evaluated /\ lastEval.enabled /\ lastEval.blacklisted)
        => /\ ~lastEval.shouldApply
           /\ mainCount = 0
           /\ ~structural
           /\ ~emergency

\* "HH:MM" read as minutes since midnight
MinutesOf(text) == DigitsToNat(SubSeq(text, 1, 2)) * 60 + DigitsToNat(SubSeq(text, 4, 5))
StartOf(schedule) == Get(schedule, <<"s", "t", "a", "r", "t">>).v
EndOf(schedule) == Get(schedule, <<"e", "n", "d">>).v

WindowOpen(start, end, now) ==
    \/ start < end /\ start <= now /\ now < end
    \/ start >= end /\ (now >= start \/ now < end)

Scheduled(start, end, now) ==
    /\ StartOf(lastEval.schedule) = start
    /\ EndOf(lastEval.schedule) = end
    /\ lastEval.now = now

\* C3: on the initial evaluation, enabled, not blacklisted and with an
\* enabled schedule, styles are applied exactly when now lies in the window
\* from start to end, a window with start >= end running over midnight; equal
\* start and end apply at every time, 20:00-06:00 applies at 23:00 and not at
\* 12:00, 09:00-17:00 applies at 10:00 and not at 18:00
C3_ScheduleGate ==
    (Evaluated /\ lastEval.gated)
        => /\ lastEval.shouldApply
                <=> WindowOpen(MinutesOf(StartOf(lastEval.schedule)),
                               MinutesOf(EndOf(lastEval.schedule)), lastEval.now)
           /\ lastEval.shouldApply <=> mainCount = 1
           /\ StartOf(lastEval.schedule) = EndOf(lastEval.schedule) => lastEval.shouldApply
           /\ Scheduled(<<"2", "0", ":", "0", "0">>, <<"0", "6", ":", "0", "0">>, 1380) => lastEval.shouldApply
           /\ Scheduled(<<"2", "0", ":", "0", "0">>, <<"0", "6", ":", "0", "0">>, 720) => ~lastEval.shouldApply
           /\ Scheduled(<<"0", "9", ":", "0", "0">>, <<"1", "7", ":", "0", "0">>, 600) => lastEval.shouldApply
           /\ Scheduled(<<"0", "9", ":", "0", "0">>, <<"1", "7", ":", "0", "0">>, 1080) => ~lastEval.shouldApply

C3_Witness ==
    /\ Evaluated /\ lastEval.gated
    /\ StartOf(lastEval.schedule) = EndOf(lastEval.schedule)
    /\ lastEval.shouldApply /\ mainCount = 1

\* the decision of the initial-load evaluation for what an evaluation read
InitialDecision ==
    /\ lastEval.enabled
    /\ ~lastEval.blacklisted
    /\ ScheduleGate(lastEval.schedule)
          => WindowOpen(MinutesOf(StartOf(lastEval.schedule)),
                        MinutesOf(EndOf(lastEval.schedule)), lastEval.now)

\* C22: after the evaluation a change notification triggers, the main
\* stylesheet is present only if the flag is true, the host is not
\* blacklisted and, with schedule.enabled, the current time lies in the
\* schedule window: the decision of the initial-load evaluation
C22_ChangeRederives ==
    (Evaluated /\ lastEval.kind = "change")
        => /\ mainCount > 0 => InitialDecision
           /\ lastEval.shouldApply <=> InitialDecision

\* what the store holds now, read as an evaluation in this document reads it
StoredFinal == FinalSettings(storeSettings, hostname)
StoredBlacklisted == isBlacklisted(JStr(hostname), Get(StoredFinal, <<"b", "l", "a", "c", "k", "l", "i", "s", "t">>))
StoredSchedule == Get(StoredFinal, <<"s", "c", "h", "e", "d", "u", "l", "e">>)
InsideSchedule(schedule) ==
    ScheduleGate(schedule)
        => \A now \in SampleTimes :
              WindowOpen(MinutesOf(StartOf(schedule)), MinutesOf(EndOf(schedule)), now)

\* the document began to load with the flag not true, the flag is true now,
\* the host is not blacklisted and the time is inside the schedule
TurnedOn ==
    /\ storageAvailable
    /\ ~enabledAtLoad
    /\ IsTrue(storeEnabled)
    /\ ~StoredBlacklisted
    /\ InsideSchedule(StoredSchedule)

\* C23: a page loaded while the flag was false, whose flag is later set to
\* true on a host that is not blacklisted and inside the schedule, eventually
\* has the main stylesheet applied without a reload, the callbacks being
\* delivered fairly
C23_TurnedOnApplies == TurnedOn ~> (mainCount = 1 \/ ~TurnedOn)

\* the background cache answered false or not yet initialised while the
\* store held the flag true
StaleAnswer ==
    /\ fastPath.answer = "reply"
    /\ IsFalse(fastPath.enabled) \/ IsNull(fastPath.enabled)
    /\ IsTrue(fastPath.stored)

\* C24: when the background cache answers the query while stale, or the
\* message fails, the page goes on to its own read of the store, and what it
\* applies or removes is what that read decides
C24_StoreOverCache ==
    (StaleAnswer \/ fastPath.answer = "failed")
        => /\ pc # "off"
           /\ Evaluated => (mainCount = 1 <=> lastEval.shouldApply)

\* ------------------------------------------------------------------------
\* SpecCache: the background worker alone, its startup read and its change
\* listener under writes of the store
\* ------------------------------------------------------------------------
InitCache ==
    /\ \/ installed = "no" /\ StoreIdle
       \/ /\ installed = "old"
          /\ storeEnabled \in {Undef, JTrue, JFalse}
          /\ storeSettings \in StyleSettings \cup {Undef}
    /\ StyleIdle
    /\ enabledStateCache = Null /\ blacklistCache = JArr(<<>>)
    /\ bgStarted = FALSE /\ bgSnapshot = NoSnapshot /\ bgPending = <<>>
    /\ SanIdle /\ SignIdle /\ PageIdle /\ MonIdle /\ DomIdle

NextCache ==
    \/ ToggleEnabled
    \/ WriteSettings
    \/ OnInstalled
    \/ BgRead
    \/ BgStartup
    \/ BgOnChanged

SpecCache == InitCache /\ [][NextCache]_vars

\* result.cyberdarkSettings?.blacklist || [] of what the store holds
StoredBlacklist ==
    OrElse(IF IsObj(storeSettings) THEN Get(storeSettings, <<"b", "l", "a", "c", "k", "l", "i", "s", "t">>) ELSE Undef,
           JArr(<<>>))

\* C25: for every interleaving of the callback of the startup read and the
\* change notifications, once every pending callback has been delivered
\* enabledStateCache is (stored flag === true) and blacklistCache is the
\* blacklist of the stored record: a late startup callback with an older
\* snapshot never overwrites what a change notification installed
C25_CacheMirrorsStore ==
    (bgStarted /\ bgPending = <<>>)
        => /\ StrictEq(enabledStateCache, JBool(IsTrue(storeEnabled)))
           /\ SameStored(blacklistCache, StoredBlacklist)

\* C26: whenever an evaluation resolves to Disabled, Blacklisted or
\* OutOfSchedule the emergency stylesheet is absent as soon as the evaluation
\* completes, also while the fade-out a preceding Active evaluation started
\* is in progress
C26_DisabledRemovesEmergency ==
    (Evaluated /\ ~lastEval.shouldApply) => ~emergency

\* C27: in every document the emergency stylesheet was injected in, it is
\* eventually removed, the callbacks and timers being delivered fairly:
\* whether the background query succeeds, fails or answers unknown, and also
\* when the storage API is not available in the page
C27_EmergencyTransient == emergency ~> ~emergency

\* C11: however many times loadAndApplyCyberdark is invoked in the document,
\* at most one storage change listener is registered
C11_OneChangeListener ==
    /\ listeners <= 1
    /\ (loads > 0 /\ storageAvailable) => listeners = 1

C11_Witness == loads >= 2 /\ listeners = 1 /\ storageListenerRegistered

\* C12: the first install sets the stored flag to false, and whenever the
\* stored flag is not exactly true a completed evaluation leaves no main,
\* structural or emergency stylesheet in the document
C12_DefaultOff ==
    /\ (installed = "fresh" /\ writes = 0) => IsFalse(storeEnabled)
    /\ (Evaluated /\ ~lastEval.enabled)
          => mainCount = 0 /\ ~structural /\ ~emergency

IsLowerHex(value) ==
    /\ IsStr(value)
    /\ Len(value.v) \in {4, 7}
    /\ value.v[1] = "#"
    /\ \A i \in 2..Len(value.v) :
          value.v[i] \in {"0", "1", "2", "3", "4", "5", "6", "7", "8", "9",
                          "a", "b", "c", "d", "e", "f"}

DefaultColors == Colors(ConfigDefaults)

C18_WitnessLowercased ==
    /\ Evaluated /\ lastEval.shouldApply
    /\ SameStored(storeSettings, SetAlways)
    /\ StrictEq(lastEval.colors[1], JStr(<<"#", "f", "f", "f">>))

\* ------------------------------------------------------------------------
\* Properties of the sanitizers of whole maps and records
\* ------------------------------------------------------------------------
ReturnedMap ==
    sFn = "sanitizePerSiteOverrides" /\ ~IsNone(sOnce) /\ ~IsThrow(sOnce)

\* an object of more than MaxOverrides entries, its keys distinct domains
\* that sanitizeDomain leaves as they are, its values objects
ManyValid(input) ==
    /\ IsObj(input)
    /\ Len(input.v.ents) > MaxOverrides
    /\ \A i \in 1..Len(input.v.ents) :
          /\ StrictEq(sanitizeDomain(JStr(input.v.ents[i].k)), JStr(input.v.ents[i].k))
          /\ IsObj(input.v.ents[i].v)
          /\ \A j \in 1..(i - 1) : input.v.ents[j].k # input.v.ents[i].k

\* C13: sanitizePerSiteOverrides never returns more than 100 keys; given
\* more than 100 distinct valid domain entries it returns exactly 100, the
\* first 100 in insertion order
C13_OverrideCap ==
    ReturnedMap
        => /\ IsObj(sOnce)
           /\ Len(Keys(sOnce)) <= 100
           /\ ManyValid(sInput)
                 => /\ Len(Keys(sOnce)) = 100
                    /\ Keys(sOnce) = SubSeq(Keys(sInput), 1, 100)

C13_Witness ==
    /\ ReturnedMap
    /\ ManyValid(sInput)
    /\ Len(Keys(sInput)) = ManyCount
    /\ Len(Keys(sOnce)) = 100

\* C14: the map sanitizePerSiteOverrides returns has no inherited prototype,
\* none of the keys __proto__, constructor and prototype, and only keys that
\* sanitizeDomain accepts
C14_NoPollution ==
    ReturnedMap
        => /\ IsObj(sOnce)
           /\ sOnce.v.proto = "null"
           /\ \A i \in 1..Len(Keys(sOnce)) :
                 /\ Keys(sOnce)[i] \notin {<<"_", "_", "p", "r", "o", "t", "o", "_", "_">>, <<"c", "o", "n", "s", "t", "r", "u", "c", "t", "o", "r">>, <<"p", "r", "o", "t", "o", "t", "y", "p", "e">>}
                 /\ IsStr(sanitizeDomain(JStr(Keys(sOnce)[i])))

\* the input with the keys __proto__, constructor and prototype
C14_Witness ==
    /\ ReturnedMap
    /\ IsObj(sInput) /\ HasOwn(sInput, <<"_", "_", "p", "r", "o", "t", "o", "_", "_">>)
    /\ IsObj(sOnce) /\ sOnce.v.proto = "null"

SettingsRecordFields ==
    {<<"c", "o", "l", "o", "r", "1">>, <<"c", "o", "l", "o", "r", "2">>, <<"c", "o", "l", "o", "r", "3">>, <<"c", "o", "l", "o", "r", "4">>, <<"t", "e", "x", "t", "S", "h", "a", "d", "o", "w">>, <<"h", "i", "g", "h", "C", "o", "n", "t", "r", "a", "s", "t">>,
     <<"f", "o", "c", "u", "s", "O", "u", "t", "l", "i", "n", "e">>, <<"r", "e", "d", "u", "c", "e", "d", "M", "o", "t", "i", "o", "n">>, <<"r", "e", "s", "o", "u", "r", "c", "e", "M", "o", "n", "i", "t", "o", "r", "E", "n", "a", "b", "l", "e", "d">>, <<"d", "e", "b", "u", "g", "M", "o", "d", "e">>,
     <<"f", "o", "n", "t", "S", "i", "z", "e">>, <<"l", "i", "n", "e", "H", "e", "i", "g", "h", "t">>, <<"c", "o", "l", "o", "r", "B", "l", "i", "n", "d", "M", "o", "d", "e">>, <<"b", "l", "a", "c", "k", "l", "i", "s", "t">>,
     <<"p", "e", "r", "S", "i", "t", "e", "O", "v", "e", "r", "r", "i", "d", "e", "s">>, <<"s", "c", "h", "e", "d", "u", "l", "e">>}

\* C17: for every object input the result of validateSettingsObject holds
\* every field of the settings record, and resourceMonitorEnabled false in
\* the input is false in the result
C17_FullyPopulated ==
    (/\ sFn = "validateSettingsObject"
     /\ IsObj(sInput)
     /\ ~IsNone(sOnce) /\ ~IsThrow(sOnce))
        => /\ \A field \in SettingsRecordFields : HasOwn(sOnce, field)
           /\ IsFalse(Get(sInput, <<"r", "e", "s", "o", "u", "r", "c", "e", "M", "o", "n", "i", "t", "o", "r", "E", "n", "a", "b", "l", "e", "d">>))
                 => IsFalse(Get(sOnce, <<"r", "e", "s", "o", "u", "r", "c", "e", "M", "o", "n", "i", "t", "o", "r", "E", "n", "a", "b", "l", "e", "d">>))

\* ------------------------------------------------------------------------
\* SpecPure: hostMatches, sanitizeHexColor, sanitizeNumericRange and
\* sanitizeFontSize applied to their arguments
\* ------------------------------------------------------------------------
HostInputs ==
    {JStr(<<"a", ".", "b", ".", "e", "x", "a", "m", "p", "l", "e", ".", "c", "o", "m">>), JStr(<<"e", "x", "a", "m", "p", "l", "e", ".", "c", "o", "m">>), JStr(<<"n", "o", "t", "e", "x", "a", "m", "p", "l", "e", ".", "c", "o", "m">>),
     JStr(<<"A", ".", "E", "x", "a", "m", "p", "l", "e", ".", "C", "O", "M">>), JStr(<<"e", "x", "a", "m", "p", "l", "e", ".", "c", "o", "m", ".", "e", "v", "i", "l", ".", "i", "o">>), JStr(<<>>), Undef, Null}
PatternInputs ==
    {JStr(<<"e", "x", "a", "m", "p", "l", "e", ".", "c", "o", "m">>), JStr(<<"E", "X", "A", "M", "P", "L", "E", ".", "c", "o", "m">>), JStr(<<"b", ".", "e", "x", "a", "m", "p", "l", "e", ".", "c", "o", "m">>),
     JStr(<<"c", "o", "m">>), JStr(<<>>), Undef}

HexInputs ==
    {JStr(<<"#", "F", "F", "F">>), JStr(<<"#", "a", "b", "c">>), JStr(<<"#", "A", "b", "C", "d", "E", "f">>), JStr(<<"#", "0", "0", "f", "f", "0", "0">>),
     JStr(<<"#", "1", "2", "3", "4", "5">>), JStr(<<"#", "1", "2", "3", "4", "5", "6", "7">>), JStr(<<"#", "g", "g", "g", "g", "g", "g">>), JStr(<<"#", "f", "f", "f", " ">>),
     JStr(<<"#", "f", "f", "f", "\n">>), JStr(<<"f", "f", "f">>), JStr(<<"r", "e", "d", ";", "}">>), JStr(<<>>),
     Undef, Null, JNum(10), JTrue, JArr(<<JStr(<<"#", "f", "f", "f">>)>>), PlainObj(<<>>)}
FallbackInputs == {Undef, Null, JStr(<<"#", "0", "0", "f", "f", "f", "f">>), JStr(<<"F", "a", "l", "l", "b", "a", "c", "k">>)}

NumericInputs ==
    {Null, Undef, JStr(<<>>), JStr(<<" ">>), JStr(<<"a", "b", "c">>), JStr(<<"1", "8">>), JStr(<<"1", "8", ".", "5">>),
     JStr(<<" ", "1", "2", " ">>), JStr(<<"5">>), JStr(<<"1", "0", "0">>), JStr(<<"-", "3">>), JStr(<<"1", ".", "2", ".", "3">>),
     JNum(130), JNum(120), JNum(240), JNum(241), JNum(500), JNum(0), JNum(-10), JNum(15),
     NaN, Infinity, JTrue, JFalse, JArr(<<>>), JArr(<<JNum(200)>>), PlainObj(<<>>)}
RangeInputs ==
    {<<FontSizeMin, FontSizeMax, JNum(FontSizeDefault)>>,
     <<LineHeightMin, LineHeightMax, JNum(LineHeightDefault)>>,
     <<0, 1000, Null>>}

\* domain lists: an array with entries to trim, to lowercase and to drop, the
\* same as a text of lines, arrays of valid domains around the limit, and
\* values that are neither a string nor an array
ManyDomains == 1001
DomainArray(count) == JArr([i \in 1..count |-> JStr(ManyKey(i))])
RECURSIVE JoinLines(_, _, _)
JoinLines(items, lo, hi) ==
    IF lo > hi THEN <<>>
    ELSE IF lo = hi THEN items[lo].v
    ELSE LET mid == (lo + hi) \div 2
         IN  JoinLines(items, lo, mid) \o <<"\n">> \o JoinLines(items, mid + 1, hi)
DomainText(count) == JStr(JoinLines(DomainArray(count).v, 1, count))
DomainListInputs ==
    {JArr(<<JStr(<<" ", "A", ".", "c", "o", " ">>), JStr(<<"b", "a", "d", " ", "d", "o", "m", "a", "i", "n">>), JStr(<<"b", ".", "i", "o">>), JNum(50), JStr(<<"A", ".", "c", "o">>), Null,
            JStr(<<"L", "O", "C", "A", "L", "H", "O", "S", "T">>), JStr(<<"c", ".", "d">>), JStr(<<"x", ".", "d", "e">>)>>),
     JStr(<<" ", "A", ".", "c", "o", " ", "\r", "\n", "b", "a", "d", " ", "d", "o", "m", "a", "i", "n", "\n", "\n", "b", ".", "i", "o", "\r", "\n", "5", "0", "\n", "A", ".", "c", "o", "\n", "x", ".", "d", "e", "\r">>),
     JArr(<<>>), JStr(<<>>), JStr(<<"a", ".", "c", "o">>),
     DomainArray(ManyDomains), DomainArray(MaxDomains), DomainArray(MaxDomains - 1), DomainText(ManyDomains),
     Null, Undef, JNum(10), JTrue, PlainObj(<<Ent(<<"0">>, JStr(<<"a", ".", "c", "o">>)), Ent(<<"l", "e", "n", "g", "t", "h">>, JNum(10))>>)}

\* the hostnames and blacklists the lookup sites are compared on
SiteHosts ==
    {HostA, HostSubA, HostXA, HostB, <<"d", "o", "c", "s", ".", "g", "o", "o", "g", "l", "e", ".", "c", "o", "m">>, <<"x", ".", "f", "i", "g", "m", "a", ".", "c", "o", "m">>}
SiteBlacklists ==
    {JArr(<<>>), JArr(<<JStr(HostA)>>), JArr(<<JStr(HostB), JStr(<<"A", ".", "c", "o">>)>>),
     JArr(<<JStr(<<"c", "o">>)>>)}

\* String.prototype.includes
Includes(text, part) ==
    \E i \in 0..(Len(text) - Len(part)) : SubSeq(text, i + 1, i + Len(part)) = part

\* the isBlacklisted of the config content.js falls back to when
\* CyberdarkConfig is not defined: (d, b) => b.some(x => d.includes(x))
fallbackIsBlacklisted(d, b) ==
    IF ~IsArr(b) THEN Throw
    ELSE JBool(\E i \in 1..Len(b.v) : Includes(d, ToStr(b.v[i])))

\* the verdict of the popup's checkCurrentSiteBlacklist for the hostname of
\* the active tab: None when it returns before the button is set;
\* CyberdarkConfig.hostMatches and the comparison it falls back to agree on
\* sanitized domains
PatternListed(safeDomain, pattern) == Truthy(pattern) /\ hostMatches(safeDomain, pattern)
checkCurrentSiteBlacklist(domain, blacklist) ==
    LET safeDomain == sanitizeDomain(JStr(domain))
        items == IF IsArr(blacklist) THEN blacklist.v ELSE <<>>
    IN  IF ~Truthy(safeDomain) THEN None
        ELSE JBool(\E i \in 1..Len(items) : PatternListed(safeDomain, sanitizeDomain(items[i])))

\* the four lookup sites on one hostname and blacklist: the background's
\* cache, config.js, the fallback config of content.js, and the popup
LookupSites(domain, blacklist) ==
    [background |-> JBool(cacheIsBlacklisted(JStr(domain), blacklist)),
     content |-> JBool(isBlacklisted(JStr(domain), blacklist)),
     fallback |-> fallbackIsBlacklisted(domain, blacklist),
     popup |-> checkCurrentSiteBlacklist(domain, blacklist)]

notPure == <<signVars, storeVars, pageVars, styleVars, bgVars, monVars, domVars>>

InitPure ==
    /\ \/ sFn = "hostMatches" /\ sInput \in HostInputs \X PatternInputs
       \/ sFn = "sanitizeHexColor" /\ sInput \in HexInputs \X FallbackInputs
       \/ sFn = "sanitizeNumericRange" /\ sInput \in NumericInputs \X RangeInputs
       \/ sFn = "sanitizeFontSize" /\ sInput \in NumericInputs \X {<<>>}
       \/ sFn = "sanitizeDomainList" /\ sInput \in DomainListInputs \X {<<>>}
       \/ sFn = "isBlacklisted" /\ sInput \in SiteHosts \X SiteBlacklists
    /\ sDefaults = None
    /\ sOnce = None
    /\ sTwice = None
    /\ SignIdle /\ StoreIdle /\ PageIdle /\ StyleIdle /\ BgIdle /\ MonIdle /\ DomIdle

ApplyHostMatches ==
    /\ sFn = "hostMatches" /\ IsNone(sOnce)
    /\ sOnce' = JBool(hostMatches(sInput[1], sInput[2]))
    /\ UNCHANGED <<sFn, sInput, sDefaults, sTwice, notPure>>

ApplySanitizeHexColor ==
    /\ sFn = "sanitizeHexColor" /\ IsNone(sOnce)
    /\ sOnce' = sanitizeHexColor(sInput[1], sInput[2])
    /\ UNCHANGED <<sFn, sInput, sDefaults, sTwice, notPure>>

ApplySanitizeNumericRange ==
    /\ sFn = "sanitizeNumericRange" /\ IsNone(sOnce)
    /\ sOnce' = sanitizeNumericRange(sInput[1], sInput[2][1], sInput[2][2], sInput[2][3])
    /\ UNCHANGED <<sFn, sInput, sDefaults, sTwice, notPure>>

ApplySanitizeFontSize ==
    /\ sFn = "sanitizeFontSize" /\ IsNone(sOnce)
    /\ sOnce' = sanitizeFontSize(sInput[1])
    /\ UNCHANGED <<sFn, sInput, sDefaults, sTwice, notPure>>

ApplySanitizeDomainList ==
    /\ sFn = "sanitizeDomainList" /\ IsNone(sOnce)
    /\ sOnce' = sanitizeDomainList(sInput[1])
    /\ UNCHANGED <<sFn, sInput, sDefaults, sTwice, notPure>>

ApplyIsBlacklisted ==
    /\ sFn = "isBlacklisted" /\ IsNone(sOnce)
    /\ sOnce' = [t |-> "verdicts", v |-> LookupSites(sInput[1], sInput[2])]
    /\ UNCHANGED <<sFn, sInput, sDefaults, sTwice, notPure>>

NextPure ==
    \/ ApplyIsBlacklisted
    \/ ApplyHostMatches
    \/ ApplySanitizeHexColor
    \/ ApplySanitizeNumericRange
    \/ ApplySanitizeFontSize
    \/ ApplySanitizeDomainList

SpecPure == InitPure /\ [][NextPure]_vars

Applied(fn) == sFn = fn /\ ~IsNone(sOnce)

\* text ends with "." followed by the pattern
EndsWithDotted(text, pattern) ==
    /\ Len(text) > Len(pattern)
    /\ SubSeq(text, Len(text) - Len(pattern), Len(text)) = <<".">> \o pattern

HostCase(host, pattern) ==
    IsStr(sInput[1]) /\ sInput[1].v = host /\ IsStr(sInput[2]) /\ sInput[2].v = pattern

NonEmptyText(value) == IsStr(value) /\ value.v # <<>>

\* C15: hostMatches is true exactly when the lowercased hostname is the
\* lowercased pattern or ends with "." and the pattern; a.b.example.com and
\* example.com match example.com, notexample.com does not; an empty
\* hostname or pattern never matches
C15_HostMatches ==
    Applied("hostMatches")
        => /\ (NonEmptyText(sInput[1]) /\ NonEmptyText(sInput[2]))
                 => (IsTrue(sOnce)
                        <=> \/ toLowerCase(sInput[1].v) = toLowerCase(sInput[2].v)
                            \/ EndsWithDotted(toLowerCase(sInput[1].v),
                                              toLowerCase(sInput[2].v)))
           /\ (~NonEmptyText(sInput[1]) \/ ~NonEmptyText(sInput[2])) => IsFalse(sOnce)
           /\ HostCase(<<"a", ".", "b", ".", "e", "x", "a", "m", "p", "l", "e", ".", "c", "o", "m">>, <<"e", "x", "a", "m", "p", "l", "e", ".", "c", "o", "m">>) => IsTrue(sOnce)
           /\ HostCase(<<"e", "x", "a", "m", "p", "l", "e", ".", "c", "o", "m">>, <<"e", "x", "a", "m", "p", "l", "e", ".", "c", "o", "m">>) => IsTrue(sOnce)
           /\ HostCase(<<"n", "o", "t", "e", "x", "a", "m", "p", "l", "e", ".", "c", "o", "m">>, <<"e", "x", "a", "m", "p", "l", "e", ".", "c", "o", "m">>) => IsFalse(sOnce)

C15_Witness ==
    Applied("hostMatches") /\ HostCase(<<"a", ".", "b", ".", "e", "x", "a", "m", "p", "l", "e", ".", "c", "o", "m">>, <<"e", "x", "a", "m", "p", "l", "e", ".", "c", "o", "m">>) /\ IsTrue(sOnce)

C15_WitnessNoMatch ==
    Applied("hostMatches") /\ HostCase(<<"n", "o", "t", "e", "x", "a", "m", "p", "l", "e", ".", "c", "o", "m">>, <<"e", "x", "a", "m", "p", "l", "e", ".", "c", "o", "m">>) /\ IsFalse(sOnce)

\* C19: sanitizeHexColor(s, fb) returns a lowercase string of # and exactly
\* 3 or 6 hex digits, or exactly fb
C19_HexOrFallback ==
    Applied("sanitizeHexColor")
        => \/ IsLowerHex(sOnce)
           \/ StrictEq(sOnce, sInput[2])

C19_Witness ==
    /\ Applied("sanitizeHexColor")
    /\ StrictEq(sInput[1], JStr(<<"#", "A", "b", "C", "d", "E", "f">>))
    /\ StrictEq(sOnce, JStr(<<"#", "a", "b", "c", "d", "e", "f">>))

C19_WitnessFallback ==
    /\ Applied("sanitizeHexColor")
    /\ StrictEq(sInput[1], JStr(<<"r", "e", "d", ";", "}">>))
    /\ StrictEq(sOnce, JStr(<<"F", "a", "l", "l", "b", "a", "c", "k">>))

Coerced == ToNumber(sInput[1])
Between(min, value, max) == IF value < min THEN min ELSE IF value > max THEN max ELSE value

\* C20: sanitizeNumericRange returns the default for null, undefined, the
\* empty string and input that coerces to no finite number, and the coerced
\* number clamped into [min, max] otherwise; sanitizeFontSize returns 16 or a
\* value from 12 to 24
C20_NumericRange ==
    /\ Applied("sanitizeNumericRange")
          => IF \/ IsNull(sInput[1]) \/ IsUndef(sInput[1])
                \/ StrictEq(sInput[1], JStr(<<>>))
                \/ Coerced.t # "number"
             THEN StrictEq(sOnce, sInput[2][3])
             ELSE /\ sOnce.t = "number"
                  /\ sOnce.v = Between(sInput[2][1], Coerced.v, sInput[2][2])
    /\ Applied("sanitizeFontSize")
          => /\ sOnce.t = "number"
             /\ sOnce.v = 160 \/ (sOnce.v >= 120 /\ sOnce.v <= 240)

C20_Witness ==
    /\ Applied("sanitizeNumericRange")
    /\ StrictEq(sInput[1], JStr(<<"1", "0", "0">>))
    /\ sInput[2][1] = FontSizeMin
    /\ StrictEq(sOnce, JNum(FontSizeMax))

C20_WitnessDefault ==
    /\ Applied("sanitizeFontSize")
    /\ StrictEq(sInput[1], JStr(<<"a", "b", "c">>))
    /\ StrictEq(sOnce, JNum(FontSizeDefault))

\* the entries of a domain list: the items of an array, the lines of a text
EntriesOf(domains) ==
    IF IsStr(domains) THEN Strings(split(domains.v, "\n"))
    ELSE IF IsArr(domains) THEN domains.v
    ELSE <<>>
Accepted(entry) == ~IsNull(sanitizeDomain(entry))
Normalised(entry) == JStr(toLowerCase(trim(entry.v)))
FirstNormalised(kept, count) == [i \in 1..count |-> Normalised(kept[i])]
ExpectedDomains(kept) ==
    FirstNormalised(kept, IF Len(kept) > MaxDomains THEN MaxDomains ELSE Len(kept))
SameStrings(got, expected) ==
    /\ Len(got) = Len(expected)
    /\ \A i \in 1..Len(got) : StrictEq(got[i], expected[i])

\* C21: sanitizeDomainList returns, for an array or a text of lines, the
\* entries sanitizeDomain accepts, each trimmed and lowercased, in their
\* order, cut to the first 1000 of them; for any other value it returns the
\* empty array
C21_DomainList ==
    Applied("sanitizeDomainList")
        => /\ IsArr(sOnce)
           /\ SameStrings(sOnce.v, ExpectedDomains(SelectSeq(EntriesOf(sInput[1]), Accepted)))

C21_Witness ==
    /\ Applied("sanitizeDomainList")
    /\ IsArr(sInput[1])
    /\ Len(sInput[1].v) = ManyDomains
    /\ Len(sOnce.v) = MaxDomains
    /\ StrictEq(sOnce.v[MaxDomains], sInput[1].v[MaxDomains])

C21_WitnessLines ==
    /\ Applied("sanitizeDomainList")
    /\ IsStr(sInput[1])
    /\ Len(sInput[1].v) > 20 /\ Len(sInput[1].v) < 100
    /\ Len(sOnce.v) = 4
    /\ StrictEq(sOnce.v[1], JStr(<<"a", ".", "c", "o">>))
    /\ StrictEq(sOnce.v[4], JStr(<<"x", ".", "d", "e">>))

C21_WitnessOther ==
    /\ Applied("sanitizeDomainList")
    /\ sInput[1].t = "object"
    /\ IsArr(sOnce) /\ Len(sOnce.v) = 0

\* ------------------------------------------------------------------------
\* SpecMonitor: the ResourceMonitor of content.js under calls of start and
\* stop, the frame callbacks and the memory interval of the browser
\* ------------------------------------------------------------------------
MaxTimerId == 7

\* the handle requestAnimationFrame and setInterval return: a positive number
Handle(id) == JNum(10 * id)
IdOf(handle) == handle.v \div 10

\* clearInterval(handle) and cancelAnimationFrame(handle) behind if (handle)
Cancelled(live, handle) == IF Truthy(handle) THEN live \ {IdOf(handle)} ELSE live

\* the delays and the threshold of content.js, in ms
LagThreshold == 500
StartDelay == 2000
HideDelay == 2000

\* the clock moves in steps of TickMs; after MaxClock it moves on only up
\* to the time the pending timeouts are due, and no frame or interval
\* callback runs any more
TickMs == 1000
MaxClock == 3000

\* start(): if (this.isRunning) return
StartNeverReturns(running) == FALSE
StartReturns(running) == running

\* showResourceWarning: if (popup.dataset.timeoutId) clearTimeout(Number(...))
HideAfterTriggerUncleared(pending, previous) == pending
HideAfterTrigger(pending, previous) ==
    IF Truthy(previous)
    THEN {t \in pending : t.id # IdOf(ToNumber(previous))}
    ELSE pending

\* showResourceWarning(message), its timeout getting the handle id
showResourceWarning(id) ==
    /\ indicators' = IF indicators = 0 THEN 1 ELSE indicators
    /\ showFrames' = showFrames + 1
    /\ hideTimers' = HideAfterTrigger(hideTimers, timeoutId)
                        \cup {[id |-> id, due |-> clock + HideDelay]}
    /\ cancelledHide' = (hideTimers # {})
    /\ timeoutId' = JStr(NatToChars(id))
    /\ UNCHANGED visible

notMonitor == <<sanVars, signVars, storeVars, pageVars, styleVars, bgVars, domVars>>

\* new ResourceMonitor() and the chrome.storage.sync.get of the
\* initialisation issued, lines 817-825 and 885-886
InitMonitor ==
    /\ isRunning = FALSE /\ monitorId = Null /\ rafId = Null
    /\ frames = {} /\ intervals = {} /\ nextId = 1 /\ lastRun = "none"
    /\ clock = 0 /\ lastLoopTime = 0 /\ loopSince = -1 /\ lagWarning = [raised |-> FALSE]
    /\ monitorRead = "pending" /\ startTimer = -1 /\ lastFlag = None
    /\ indicators = 0 /\ timeoutId = Undef /\ hideTimers = {} /\ showFrames = 0
    /\ visible = FALSE /\ cancelledHide = FALSE
    /\ DomIdle
    /\ SanIdle /\ SignIdle /\ StoreIdle /\ PageIdle /\ StyleIdle /\ BgIdle

\* ResourceMonitor.start()
start ==
    IF StartReturns(isRunning)
    THEN UNCHANGED <<loopVars, loopSince>>
    ELSE /\ isRunning' = TRUE
         /\ rafId' = Handle(nextId)
         /\ frames' = frames \cup {nextId}
         /\ monitorId' = Handle(nextId + 1)
         /\ intervals' = intervals \cup {nextId + 1}
         /\ nextId' = nextId + 2
         /\ loopSince' = -1
         /\ UNCHANGED lastRun

\* ResourceMonitor.stop()
stop ==
    /\ isRunning' = FALSE
    /\ intervals' = Cancelled(intervals, monitorId)
    /\ frames' = Cancelled(frames, rafId)
    /\ loopSince' = -1
    /\ UNCHANGED <<monitorId, rafId, nextId, lastRun>>

\* time passes
Tick ==
    /\ \/ clock < MaxClock
       \/ startTimer # -1 /\ clock < startTimer
       \/ \E t \in hideTimers : clock < t.due
    /\ clock' = clock + TickMs
    /\ UNCHANGED <<loopVars, lastLoopTime, loopSince, lagWarning, monitorRead, startTimer, lastFlag, warnVars>>
    /\ UNCHANGED notMonitor

\* the callback of the initial read: resourceMonitorEnabled !== false sets
\* the timeout of the delayed start
MonitorRead ==
    /\ monitorRead = "pending"
    /\ monitorRead' = "done"
    /\ \E flag \in {Undef, JTrue, JFalse} :
          startTimer' = IF IsFalse(flag) THEN -1 ELSE clock + StartDelay
    /\ UNCHANGED <<loopVars, clock, lastLoopTime, loopSince, lagWarning, lastFlag, warnVars>>
    /\ UNCHANGED notMonitor

\* the timeout of the delayed start: resourceMonitor.start()
MonitorDelayedStart ==
    /\ nextId + 1 <= MaxTimerId
    /\ startTimer # -1 /\ clock >= startTimer
    /\ startTimer' = -1
    /\ start
    /\ UNCHANGED <<clock, lastLoopTime, lagWarning, monitorRead, lastFlag, warnVars>>
    /\ UNCHANGED notMonitor

\* a change of cyberdarkSettings whose flag is not false: updateState calls start()
MonitorStart ==
    /\ nextId + 1 <= MaxTimerId
    /\ \E flag \in {Undef, JTrue} : lastFlag' = flag
    /\ start
    /\ UNCHANGED <<clock, lastLoopTime, lagWarning, monitorRead, startTimer, warnVars>>
    /\ UNCHANGED notMonitor

\* a change of cyberdarkSettings whose flag is false: updateState calls stop()
MonitorStop ==
    /\ lastFlag' = JFalse
    /\ stop
    /\ UNCHANGED <<clock, lastLoopTime, lagWarning, monitorRead, startTimer, warnVars>>
    /\ UNCHANGED notMonitor

\* loop() of a running monitor at the time now, the frame being the first of
\* its run when since is -1
LoopAt(id, now, since) ==
    /\ lastLoopTime' = now
    /\ loopSince' = now
    /\ lastRun' = "frame"
    /\ IF now - lastLoopTime > LagThreshold
       THEN /\ showResourceWarning(nextId)
            /\ lagWarning' = [raised |-> TRUE, first |-> since = -1,
                              stalled |-> since # -1 /\ now - since > LagThreshold]
            /\ frames' = (frames \ {id}) \cup {nextId + 1}
            /\ rafId' = Handle(nextId + 1)
            /\ nextId' = nextId + 2
       ELSE /\ frames' = (frames \ {id}) \cup {nextId}
            /\ rafId' = Handle(nextId)
            /\ nextId' = nextId + 1
            /\ UNCHANGED <<lagWarning, warnVars>>

\* the browser runs a requested frame callback: loop()
MonitorFrame ==
    /\ nextId + 1 <= MaxTimerId /\ clock <= MaxClock
    /\ \E id \in frames :
          IF ~isRunning
          THEN /\ frames' = frames \ {id}
               /\ lastRun' = "frameStopped"
               /\ UNCHANGED <<rafId, nextId, lastLoopTime, loopSince, lagWarning, warnVars>>
          ELSE LoopAt(id, clock, loopSince)
    /\ UNCHANGED <<isRunning, monitorId, intervals, clock, monitorRead, startTimer, lastFlag>>
    /\ UNCHANGED notMonitor

\* the browser runs the callback of a live interval: checkMemory(), the heap
\* in use being over the threshold or not
MonitorInterval ==
    /\ nextId <= MaxTimerId /\ clock <= MaxClock
    /\ \E id \in intervals :
          lastRun' = IF isRunning THEN "interval" ELSE "intervalStopped"
    /\ \E over \in BOOLEAN :
          IF over
          THEN showResourceWarning(nextId) /\ nextId' = nextId + 1
          ELSE UNCHANGED <<nextId, warnVars>>
    /\ UNCHANGED <<isRunning, monitorId, rafId, frames, intervals, lagVars>>
    /\ UNCHANGED notMonitor

\* the frame callback of showResourceWarning: classList.add('visible')
ShowFrame ==
    /\ showFrames > 0
    /\ showFrames' = showFrames - 1
    /\ visible' = TRUE
    /\ UNCHANGED <<loopVars, lagVars, indicators, timeoutId, hideTimers, cancelledHide>>
    /\ UNCHANGED notMonitor

\* the 2 s timeout of showResourceWarning: classList.remove('visible')
HideTimer ==
    /\ \E t \in hideTimers :
          /\ clock >= t.due
          /\ hideTimers' = hideTimers \ {t}
    /\ visible' = FALSE
    /\ UNCHANGED <<loopVars, lagVars, indicators, timeoutId, showFrames, cancelledHide>>
    /\ UNCHANGED notMonitor

NextMonitor ==
    \/ Tick
    \/ MonitorRead
    \/ MonitorDelayedStart
    \/ MonitorStart
    \/ MonitorStop
    \/ MonitorFrame
    \/ MonitorInterval
    \/ ShowFrame
    \/ HideTimer

SpecMonitor == InitMonitor /\ [][NextMonitor]_vars

\* the timers and frame callbacks run when they are due
SpecMonitorFair ==
    /\ InitMonitor /\ [][NextMonitor]_vars
    /\ WF_vars(Tick) /\ WF_vars(ShowFrame) /\ WF_vars(HideTimer)

\* C16: at most one chain of frame callbacks and one interval timer are
\* live, start while running changing nothing; after stop isRunning is false
\* and no frame callback or memory interval runs until the next start
C16_OneChainAndStopCancels ==
    /\ Cardinality(frames) <= 1
    /\ Cardinality(intervals) <= 1
    /\ ~isRunning => frames = {} /\ intervals = {}
    /\ lastRun \notin {"frameStopped", "intervalStopped"}

\* stopped after the callbacks of two starts have run
C16_Witness ==
    /\ ~isRunning
    /\ nextId > 4
    /\ Truthy(rafId) /\ Truthy(monitorId)
    /\ lastRun \in {"frame", "interval"}
    /\ frames = {} /\ intervals = {}

\* started again, the handles of the earlier run cancelled
C16_WitnessRestarted ==
    /\ isRunning
    /\ nextId > 4
    /\ frames = {IdOf(rafId)} /\ intervals = {IdOf(monitorId)}

\* C34: the monitor raises a lag warning only when more than 500 ms lie
\* between two consecutive frame callbacks of the running loop, and never at
\* the first frame callback after a start
C34_WarningsAreStalls ==
    lagWarning.raised => ~lagWarning.first /\ lagWarning.stalled

\* C35: from the delivery of a change notification whose record has
\* resourceMonitorEnabled false until the next notification the monitor is
\* not running
C35_MonitorFollowsFlag == IsFalse(lastFlag) => ~isRunning

\* C36: the document holds at most one warning indicator and at most one
\* hide timer is pending, the one dataset.timeoutId names
C36_WarningsNeverStack ==
    /\ indicators <= 1
    /\ Cardinality(hideTimers) <= 1
    /\ \A t \in hideTimers : t.id = IdOf(ToNumber(timeoutId))

\* a trigger has cleared the pending timer of an earlier one
C36_Witness ==
    /\ cancelledHide
    /\ indicators = 1
    /\ Cardinality(hideTimers) = 1

\* a second trigger after the timer of the first has run
C36_WitnessAfterHide ==
    /\ ~cancelledHide
    /\ Truthy(timeoutId) /\ IdOf(ToNumber(timeoutId)) > 3
    /\ Cardinality(hideTimers) = 1
    /\ ~visible

\* C37: after the last trigger the indicator is eventually not visible for
\* good, whichever of its frame callback and its hide timer runs first
C37_WarningsTransient == <>[](~visible)

\* ------------------------------------------------------------------------
\* SpecDom: the structural elements of one document, the inline overrides
\* and the mutation observers of content.js under evaluations that apply
\* or remove the styles, nodes the page adds and the debounce timer
\* ------------------------------------------------------------------------
MaxEvals == 3
MaxObservers == 4
Elems == 1..3

\* the inline declarations the model follows; setting the background
\* shorthand sets background-color with it, removing it removes both
NoStyle == [background |-> "", backgroundColor |-> "", color |-> "", borderColor |-> ""]
HostStyles ==
    {NoStyle,
     [NoStyle EXCEPT !.color = "page"],
     [NoStyle EXCEPT !.background = "page", !.backgroundColor = "page", !.borderColor = "page"]}
ForcedStyle ==
    [background |-> "#2b2b2b", backgroundColor |-> "#2b2b2b", color |-> "#fff", borderColor |-> "#444"]

\* an element: whether it is in the document, whether it matches the
\* selector of the structural elements, the data-cyberdark-override marker,
\* its inline style, the style it had when the marker was set, and whether
\* it was added under the structural observer that is connected now
ElementsWith(present) ==
    [present : {present}, matches : BOOLEAN, marker : {FALSE}, style : HostStyles,
     saved : {NoStyle}, cycle : {"page"}, observed : {FALSE}]

overrideStructuralInlineStyles(node) ==
    IF node.matches
    THEN [node EXCEPT !.marker = TRUE, !.style = ForcedStyle,
                      !.saved = IF node.marker THEN @ ELSE node.style,
                      !.cycle = "overridden"]
    ELSE node

\* removeCyberdarkStyles on one element of [data-cyberdark-override="true"]
RevertOverride(node) ==
    IF node.present /\ node.marker
    THEN [node EXCEPT !.marker = FALSE, !.style = NoStyle, !.cycle = "reverted"]
    ELSE node

\* observeStructuralElements: if (structuralObserver) return
ObserverAfterObserveUnguarded(current, fresh) == fresh
ObserverAfterObserve(current, fresh) == IF current # 0 THEN current ELSE fresh

\* if (!mediaObserver && document.body) on the initial evaluation
MediaAfterApply(kind, current, fresh) ==
    IF kind = "initial" /\ current = 0 THEN fresh ELSE current

\* the texts of the main stylesheet built from two different records of
\* settings; 0 stands for no main stylesheet in the document
Sheets == {1, 2}

\* an iframe: whether its document can be reached from the page (same
\* origin), whether that document has a head, and whether the head holds a
\* style[data-cyberdark="iframe"]
IframeIds == 1..2
SameOriginFrame == [access |-> TRUE, head |-> TRUE, style |-> FALSE]
OtherFrames ==
    {[access |-> FALSE, head |-> TRUE, style |-> FALSE],
     [access |-> TRUE, head |-> FALSE, style |-> FALSE]}

applyCyberdarkIframes(docs) ==
    [f \in IframeIds |->
        IF docs[f].access /\ docs[f].head /\ ~docs[f].style
        THEN [docs[f] EXCEPT !.style = TRUE]
        ELSE docs[f]]

\* an open shadow root of an element in the document: whether it is
\* attached, the text of the style[data-cyberdark="main"] it holds (0 for
\* none), and whether it was there at the last applying evaluation
Roots == 1..2
NoRoot == [attached |-> FALSE, clone |-> 0, seen |-> FALSE]
EmptyRoot == [attached |-> TRUE, clone |-> 0, seen |-> FALSE]

applyCyberdarkShadowDOM(style, roots) ==
    IF style = 0 THEN roots
    ELSE [r \in Roots |->
            IF roots[r].attached /\ roots[r].clone = 0
            THEN [roots[r] EXCEPT !.clone = style]
            ELSE roots[r]]

SeenAtApply(roots) == [r \in Roots |-> [roots[r] EXCEPT !.seen = roots[r].attached]]

\* applyCyberdarkStyles, applyCyberdarkIframes and applyCyberdarkShadowDOM
\* of an applying evaluation whose settings give the stylesheet text sheet
InjectStyles(sheet) ==
    /\ mainStyle' = sheet
    /\ iframes' = applyCyberdarkIframes(iframes)
    /\ shadows' = SeenAtApply(applyCyberdarkShadowDOM(sheet, shadows))

\* a structural element without inline style of its own that the page adds
AddedHeader ==
    [present |-> FALSE, matches |-> TRUE, marker |-> FALSE, style |-> NoStyle,
     saved |-> NoStyle, cycle |-> "page", observed |-> FALSE]

Observer(kind, id) == [kind |-> kind, id |-> id]
Live(kind, id) == IF id = 0 THEN {} ELSE {Observer(kind, id)}
Resolved(kind, result) ==
    [n |-> lastResolved.n + 1, kind |-> kind, result |-> result]

notDom == <<sanVars, signVars, storeVars, pageVars, styleVars, bgVars, monVars>>

InitDom ==
    /\ elements \in {<<first, second, AddedHeader>> :
                        first \in ElementsWith(TRUE), second \in ElementsWith(FALSE)}
    /\ structuralObserver = 0 /\ mediaObserver = 0
    /\ connected = {} /\ timeouts = {} /\ nextObserver = 1
    /\ lastResolved = [n |-> 0]
    /\ mainStyle = 0
    /\ iframes \in {<<SameOriginFrame, other>> : other \in OtherFrames}
    /\ shadows = <<EmptyRoot, NoRoot>>
    /\ SanIdle /\ SignIdle /\ StoreIdle /\ PageIdle /\ StyleIdle /\ BgIdle /\ MonIdle

\* the applying branch of an evaluation: lines 577-617 of the initial read,
\* lines 641-648 of the change listener, which neither overrides the elements
\* in the document nor creates the media observer
ApplyWith(kind, structuralNow, mediaNow) ==
    /\ elements' = IF kind = "initial"
                   THEN [e \in Elems |-> IF elements[e].present
                                         THEN overrideStructuralInlineStyles(elements[e])
                                         ELSE elements[e]]
                   ELSE elements
    /\ structuralObserver' = structuralNow
    /\ mediaObserver' = mediaNow
    /\ connected' = connected \cup Live("structural", structuralNow) \cup Live("media", mediaNow)
    /\ nextObserver' = nextObserver + (IF structuralNow = structuralObserver THEN 0 ELSE 1)
                                    + (IF mediaNow = mediaObserver THEN 0 ELSE 1)
    /\ lastResolved' = Resolved(kind, "active")
    /\ UNCHANGED timeouts

ApplyObserving(kind, structuralNow) ==
    ApplyWith(kind, structuralNow,
              MediaAfterApply(kind, mediaObserver,
                              IF structuralNow = structuralObserver THEN nextObserver
                              ELSE nextObserver + 1))

DomApply ==
    /\ lastResolved.n < MaxEvals
    /\ nextObserver + 1 <= MaxObservers
    /\ \E kind \in {"initial", "change"} :
          ApplyObserving(kind, ObserverAfterObserve(structuralObserver, nextObserver))
    /\ \E sheet \in Sheets : InjectStyles(sheet)
    /\ UNCHANGED notDom

\* the other branch, lines 618-628 and 649-659: removeCyberdarkStyles and the
\* disconnect of the media observer
DomRemove ==
    /\ lastResolved.n < MaxEvals
    /\ \E kind \in {"initial", "change"} : lastResolved' = Resolved(kind, "disabled")
    /\ mainStyle' = 0
    /\ elements' = [e \in Elems |-> [RevertOverride(elements[e]) EXCEPT !.observed = FALSE]]
    /\ connected' = (connected \ Live("structural", structuralObserver)) \ Live("media", mediaObserver)
    /\ structuralObserver' = 0
    /\ mediaObserver' = 0
    /\ UNCHANGED <<timeouts, nextObserver, iframes, shadows>>
    /\ UNCHANGED notDom

\* the page adds a node to the body: every connected structural observer is
\* called back, clears its timeout and sets a new one for the added node
PageAddsNode ==
    /\ \E e \in Elems :
          /\ ~elements[e].present
          /\ elements' = [elements EXCEPT ![e].present = TRUE,
                                          ![e].observed = structuralObserver # 0]
          /\ timeouts' =
                {t \in timeouts : Observer("structural", t.observer) \notin connected}
                    \cup {[observer |-> o.id, batch |-> {e}] :
                            o \in {c \in connected : c.kind = "structural"}}
    /\ UNCHANGED <<structuralObserver, mediaObserver, connected, nextObserver, lastResolved,
                   mainStyle, iframes, shadows>>
    /\ UNCHANGED notDom

\* the 200 ms timeout of the observer callback, lines 481-497
DebounceFires ==
    /\ \E t \in timeouts :
          /\ timeouts' = timeouts \ {t}
          /\ elements' = [e \in Elems |-> IF e \in t.batch
                                          THEN overrideStructuralInlineStyles(elements[e])
                                          ELSE elements[e]]
    /\ UNCHANGED <<structuralObserver, mediaObserver, connected, nextObserver, lastResolved,
                   mainStyle, iframes, shadows>>
    /\ UNCHANGED notDom

\* the page attaches an open shadow root to an element of the document
PageAttachesShadow ==
    /\ \E r \in Roots :
          /\ ~shadows[r].attached
          /\ shadows' = [shadows EXCEPT ![r] = EmptyRoot]
    /\ UNCHANGED <<elements, structuralObserver, mediaObserver, connected, timeouts,
                   nextObserver, lastResolved, mainStyle, iframes>>
    /\ UNCHANGED notDom

NextDom ==
    \/ DomApply
    \/ DomRemove
    \/ PageAddsNode
    \/ DebounceFires
    \/ PageAttachesShadow

SpecDom == InitDom /\ [][NextDom]_vars

\* the debounce timeout runs when its 200 ms are over; one document with a
\* structural element of the page's own and two the page adds
InitDomFair ==
    /\ InitDom
    /\ elements[1].matches /\ elements[1].style = NoStyle
    /\ elements[2].style = NoStyle
    /\ ~iframes[2].access

SpecDomFair == InitDomFair /\ [][NextDom]_vars /\ WF_vars(DebounceFires)

ConnectedOf(kind) == {c \in connected : c.kind = kind}

\* C28: in every state after an evaluation that resolved to Disabled neither
\* the structural nor the media mutation observer is connected, and the
\* Active evaluations leave at most one of each connected
C28_NoLeakedObservers ==
    /\ (lastResolved.n > 0 /\ lastResolved.result = "disabled") => connected = {}
    /\ Cardinality(ConnectedOf("structural")) <= 1
    /\ Cardinality(ConnectedOf("media")) <= 1
    /\ structuralObserver # 0 => ConnectedOf("structural") = {Observer("structural", structuralObserver)}
    /\ mediaObserver # 0 => ConnectedOf("media") = {Observer("media", mediaObserver)}

C28_Witness ==
    /\ lastResolved.n = MaxEvals /\ lastResolved.result = "active"
    /\ structuralObserver > 2
    /\ ConnectedOf("structural") = {Observer("structural", structuralObserver)}
    /\ Cardinality(ConnectedOf("media")) = 1

C28_WitnessDisabled ==
    /\ lastResolved.n = 2 /\ lastResolved.result = "disabled"
    /\ nextObserver = 3
    /\ connected = {}

Forced(style) ==
    \/ style.background = ForcedStyle.background
    \/ style.backgroundColor = ForcedStyle.backgroundColor
    \/ style.color = ForcedStyle.color
    \/ style.borderColor = ForcedStyle.borderColor

\* C29: after an evaluation resolved to Disabled no element carries the
\* data-cyberdark-override marker or a forced inline override, until the
\* next Active evaluation, also after a debounce timer pending at the
\* removal has fired
C29_NoOverrideAfterDisabled ==
    (lastResolved.n > 0 /\ lastResolved.result = "disabled")
        => \A e \in Elems : ~elements[e].marker /\ ~Forced(elements[e].style)

\* C30: after overrideStructuralInlineStyles followed by
\* removeCyberdarkStyles the inline background, background-color, color and
\* border-color of the element are the values it had before the override
C30_OverridesReversed ==
    \A e \in Elems : elements[e].cycle = "reverted" => elements[e].style = elements[e].saved

\* C31: in every state after an evaluation that resolved to Disabled no
\* iframe document holds the injected iframe stylesheet and no shadow root
\* holds a clone of the main stylesheet
C31_DisabledRemovesInjected ==
    (lastResolved.n > 0 /\ lastResolved.result = "disabled")
        => /\ \A f \in IframeIds : ~iframes[f].style
           /\ \A r \in Roots : shadows[r].clone = 0

\* a structural-looking element added under the connected observer that has
\* not got the inline overrides
Awaiting(e) ==
    /\ structuralObserver # 0
    /\ elements[e].observed /\ elements[e].matches /\ ~elements[e].marker

\* C32: while Active, every structural-looking element the page adds
\* eventually carries the inline overrides, also when a later batch of
\* mutations arrives before the debounce timeout of its own batch has run
C32_NoElementLost == \A e \in Elems : Awaiting(e) ~> ~Awaiting(e)

\* C33: after an Active evaluation every shadow root that was there at the
\* evaluation holds a clone with the text of the document's main stylesheet
C33_ShadowClonesCurrent ==
    (lastResolved.n > 0 /\ lastResolved.result = "active")
        => \A r \in Roots : shadows[r].seen => shadows[r].clone = mainStyle

\* the hostname is the pattern or a subdomain of it, case ignored
HostUnder(host, pattern) ==
    \/ toLowerCase(host) = toLowerCase(pattern)
    \/ EndsWithDotted(toLowerCase(host), toLowerCase(pattern))
UserListed(host, blacklist) ==
    \E i \in 1..Len(blacklist.v) : HostUnder(host, blacklist.v[i].v)
BuiltinListed(host) ==
    \E i \in 1..Len(PROBLEMATIC_SITES) : HostUnder(host, PROBLEMATIC_SITES[i].v)

\* C38: on every hostname and blacklist the background's isBlacklisted, the
\* content script's config.isBlacklisted, the fallback config's
\* isBlacklisted and the popup's current-site check give the same verdict:
\* true exactly when the hostname is under a user pattern or, for the
\* background and the content script, under a built-in problematic site
C38_LookupSitesAgree ==
    Applied("isBlacklisted")
        => /\ IsTrue(sOnce.v.background)
                <=> (UserListed(sInput[1], sInput[2]) \/ BuiltinListed(sInput[1]))
           /\ IsTrue(sOnce.v.content)
                <=> (UserListed(sInput[1], sInput[2]) \/ BuiltinListed(sInput[1]))
           /\ IsTrue(sOnce.v.fallback)
                <=> (UserListed(sInput[1], sInput[2]) \/ BuiltinListed(sInput[1]))
           /\ IsTrue(sOnce.v.popup) <=> UserListed(sInput[1], sInput[2])

=============================================================================
